---- MODULE Spec2Model ----
(***************************************************************************)
(* A model of the Pinenut write path: the double buffer over one backing   *)
(* region, the chunk framing, the processor pipeline (encoder ->           *)
(* compressor -> encryptor -> chunk), the logger core and the IO worker    *)
(* with its runloop.                                                       *)
(*                                                                         *)
(* Sizes are byte counts.  The compressor is the pass-through `None`       *)
(* compressor of compress.rs, the encryptor is the AES encryptor of        *)
(* encrypt.rs; a record is represented by its id, its datetime (seconds)   *)
(* and the number of bytes its encoding hands to the pipeline.             *)
(***************************************************************************)
EXTENDS Integers, Sequences, FiniteSets, TLC

\* ------------------------------------------------------------------ bounds

\* Number of log(), flush() and trim() calls of a run before its shutdown().
MaxCalls == 3
\* Number of process crashes of a run of the recovery specification, and the
\* number of API calls all its loggers take together.
MaxCrashes == 2
RecoveryCalls == 3
\* Number of API calls of a run of the fair specification.
FairCalls == 2
\* Number of API calls of a run of the pipeline specification.
PipeCalls == 3
\* The buffer specification: byte values 1..MaxByte, at most MaxBufLen bytes
\* written to a slot, at most MaxSwitches switches.
MaxByte == 2
MaxBufLen == 2
MaxSwitches == 3
\* The time specification: API calls of a run, and the last second of its
\* clock and of its record datetimes.
TimeCalls == 2
MaxSends == 4
MaxFill == 10
BlockLen == 2
EncryptorBlocks == 2
DecryptorBlocks == 3
MaxPlain == 8
MaxChunks == 2
MaxRecs == 2
ReaderLen == 3
MaxTail == 3
TimeMax == 4
\* The wall clock and the record datetimes range over 0..MaxTime (seconds).
MaxTime == 1
\* Seconds of a minute, minutes of an hour, hours of a day: a scaled calendar.
MinuteLen == 1
MinutesPerHour == 2
HoursPerDay == 2
\* Payload capacity of one chunk: (buffer_len - 8) / 2 - 60 for the
\* configured buffer length.
Capacity == 80
\* Bytes the encoding of a small and of a large record hands to the pipeline.
SmallRec == 20
BigRec == 40

\* ------------------------------------------------------- program constants

\* encrypt.rs: 128-bit AES block.
BLOCK_SIZE == 16
Header_LEN == 60
\* encrypt.rs: Encryptor::BUFFER_LEN = 16 * BLOCK_SIZE.
ENCRYPTOR_BUFFER_LEN == 16 * BLOCK_SIZE
\* logger.rs: Processor::ENCODER_BUFFER_LEN.
ENCODER_BUFFER_LEN == 256

HourLen == MinuteLen * MinutesPerHour
DayLen == HourLen * HoursPerDay

Min(a, b) == IF a < b THEN a ELSE b

\* ------------------------------------------------------------------ state

VARIABLES
    cfg,        \* the run's configuration and the bounds of its environment
    hdr,        \* buffer.rs Header of the backing region: magic, alpha_side
    slot,       \* the two physical slots Alpha and Beta, each holding a chunk
    lpc,        \* position of the thread that is inside the logger (mutex owner)
    lop,        \* the Operation that thread executes
    ipc,        \* position of the IO worker thread
    queue,      \* the runloop's mpsc channel
    proc,       \* Processor: encoder buffer and encryptor buffer lengths
    logfile,    \* Io.logfile: the log file the worker has at hand
    files,      \* the domain directory: file timestamp -> chunks in the file
    now,        \* the wall clock (chrono::Utc::now), seconds
    appended,   \* history: every chunk the worker appended to a log file
    held,       \* the physical slot each outstanding BufferHandle resolved to
    g           \* history counters and flags

vars == <<cfg, hdr, slot, lpc, lop, ipc, queue, proc, logfile, files, now, appended, held, g>>

Slots == {"Alpha", "Beta"}
Sides == {"Left", "Right"}

\* ----------------------------------------------------------- double buffer

\* buffer.rs Not for Side.
NotSide(side) == IF side = "Left" THEN "Right" ELSE "Left"

BufferValidateMagic(h) == h.magic

\* buffer.rs BufferInner::validate.
BufferValidate(h) == h.magic /\ h.alpha_side \in Sides

\* buffer.rs Header::default.
HeaderDefault == [magic |-> TRUE, alpha_side |-> "Left"]

BufferInitializeSkip(h) == h

\* buffer.rs BufferInner::initialize (called by BufferInner::new).
BufferInitialize(h) == IF BufferValidate(h) THEN h ELSE HeaderDefault

BufferSwitchWrong(h) == [h EXCEPT !.alpha_side = "Left"]

\* buffer.rs BufferInner::switch.
BufferSwitch(h) ==
    [h EXCEPT !.alpha_side =
        NotSide(IF h.alpha_side \in Sides THEN h.alpha_side ELSE "Left")]

\* buffer.rs BufferInner::buffer: the physical slot a named handle resolves to.
BufferOf(h, side) == IF h.alpha_side = side THEN "Alpha" ELSE "Beta"

\* ------------------------------------------------------------------ chunks

\* chunk.rs Header, with the history of the payload: the records whose bytes
\* went into it (recs) and their datetimes (dts), whether it ends with the padded final block (pad),
\* the number of the seal that closed it (seal), the write operation that
\* sealed it (by) and the bytes the processor still buffered then (carry).
ZeroChunk ==
    [valid |-> FALSE, length |-> 0, writeback |-> FALSE, start |-> 0, end |-> 0,
     recs |-> <<>>, dts |-> <<>>, pad |-> FALSE, seal |-> 0, carry |-> 0,
     by |-> "None"]

\* chunk.rs Chunk::validate.
ChunkValidate(c) == c.valid /\ c.length <= Capacity

ChunkInitializeKeep(c, datetime) ==
    [c EXCEPT !.valid = TRUE, !.writeback = FALSE, !.start = datetime, !.end = datetime]

\* chunk.rs Chunk::initialize.
ChunkInitialize(c, datetime) ==
    [c EXCEPT !.valid = TRUE, !.length = 0, !.writeback = FALSE,
              !.start = datetime, !.end = datetime,
              !.recs = <<>>, !.dts = <<>>, !.pad = FALSE, !.seal = 0, !.carry = 0,
              !.by = "None"]

IsAlmostFullNever(c) == FALSE

\* chunk.rs Chunk::is_almost_full: length >= 0.8 * capacity.
IsAlmostFull(c) == 5 * c.length >= 4 * Capacity

\* chunk.rs Chunk::set_end_datetime.
SetEndDatetime(c, datetime) == [c EXCEPT !.end = datetime]

\* chunk.rs Chunk::set_writeback.
SetWriteback(c) == [c EXCEPT !.writeback = TRUE]

ChunkClearNothing(c) == c

ChunkClearHeader(c) ==
    [c EXCEPT !.length = 0, !.recs = <<>>, !.dts = <<>>, !.writeback = FALSE,
              !.start = 0, !.end = 0]

\* chunk.rs Chunk::clear: the length only; the other header fields stay.
ChunkClear(c) == [c EXCEPT !.length = 0, !.recs = <<>>, !.dts = <<>>]

\* --------------------------------------------------------------- processor

\* The pipeline state while one process() call runs: encoder buffer (enc),
\* encryptor buffer (cip), the chunk's payload length (len), whether the
\* payload now ends with the padded final block (pad), and ok = no error yet.
PipeState(p, c) ==
    [enc |-> p.enc, cip |-> p.cip, len |-> c.length, pad |-> c.pad, ok |-> TRUE]

ChunkWriteUnchecked(st, n) == [st EXCEPT !.len = @ + n, !.pad = FALSE]

\* chunk.rs Chunk::write of n bytes: Overflow leaves the chunk as it is.
ChunkWrite(st, n) ==
    IF st.len + n > Capacity
    THEN [st EXCEPT !.ok = FALSE]
    ELSE [st EXCEPT !.len = @ + n, !.pad = FALSE]

\* encrypt.rs BytesBuf::sink with pad = false: the whole-block prefix of the
\* buffer goes to the chunk and is drained only when the chunk took it.
SinkBlocks(st) ==
    LET len == (st.cip \div BLOCK_SIZE) * BLOCK_SIZE
        w   == IF len > 0 THEN ChunkWrite(st, len) ELSE st
    IN  IF w.ok THEN [w EXCEPT !.cip = @ - len] ELSE w

\* encrypt.rs aes::Encryptor::encrypt, EncryptOp::Input of k bytes.
RECURSIVE EncryptInput(_, _)
EncryptInput(st, k) ==
    IF k = 0 THEN st
    ELSE LET buffered == Min(k, ENCRYPTOR_BUFFER_LEN - st.cip)
             s1 == SinkBlocks([st EXCEPT !.cip = @ + buffered])
         IN  IF s1.ok THEN EncryptInput(s1, k - buffered) ELSE s1

\* encrypt.rs aes::Encryptor::encrypt, EncryptOp::Flush: BytesBuf::sink with
\* pad = true; PKCS#7 needs room for the padded message in the buffer.
EncryptFlush(st) ==
    LET padded == (st.cip \div BLOCK_SIZE + 1) * BLOCK_SIZE
    IN  IF padded > ENCRYPTOR_BUFFER_LEN
        THEN [st EXCEPT !.ok = FALSE]
        ELSE LET w == ChunkWrite(st, padded)
             IN  IF w.ok THEN [w EXCEPT !.cip = 0, !.pad = TRUE] ELSE w

\* compress.rs Compressor for Option<T>, None: Input goes straight to the
\* sink, Flush and End do nothing.
CompressInput(st, k) == EncryptInput(st, k)

\* codec.rs AccumulationEncoder::encode of a record of n encoded bytes.
RECURSIVE EncoderFill(_, _)
EncoderFill(st, n) ==
    LET buffered == Min(n, ENCODER_BUFFER_LEN - st.enc)
        s1 == [st EXCEPT !.enc = @ + buffered]
    IN  IF n - buffered = 0 THEN s1
        ELSE LET s2 == CompressInput(s1, s1.enc)
             IN  IF s2.ok THEN EncoderFill([s2 EXCEPT !.enc = 0], n - buffered)
                 ELSE s2

EncoderEncode(st, n) ==
    LET s1 == EncoderFill(st, n)
    IN  IF ~s1.ok THEN s1
        ELSE LET s2 == CompressInput(s1, s1.enc)
             IN  IF s2.ok THEN [s2 EXCEPT !.enc = 0] ELSE s2

\* logger.rs Processor::process, Operation::Input.
ProcessInput(p, c, rec) ==
    LET st == EncoderEncode(PipeState(p, c), rec.size)
    IN  [proc  |-> [enc |-> st.enc, cip |-> st.cip],
         chunk |-> IF st.ok
                   THEN [SetEndDatetime(c, rec.dt) EXCEPT
                             !.length = st.len, !.pad = st.pad,
                             !.recs = Append(@, rec.id), !.dts = Append(@, rec.dt)]
                   ELSE [c EXCEPT !.length = st.len, !.pad = st.pad],
         ok    |-> st.ok]

\* logger.rs Processor::process, Operation::Rotate.
ProcessRotate(p, c) ==
    LET st == EncryptFlush(PipeState(p, c))
    IN  [proc  |-> [enc |-> st.enc, cip |-> st.cip],
         chunk |-> [c EXCEPT !.length = st.len, !.pad = st.pad],
         ok    |-> st.ok]

\* logger.rs Processor::process, Operation::Writeback: nothing.
ProcessWriteback(p, c) == [proc |-> p, chunk |-> c, ok |-> TRUE]

\* logger.rs Processor::new.
NewProcessor == [enc |-> 0, cip |-> 0]

\* -------------------------------------------------------------------- time

Times(c) == 0 .. c.maxTime

\* lib.rs TimeDimension::check_match: Day compares the date, Hour also the
\* hour of the day, Minute also the minute of the hour.
CheckMatch(dim, left, right) ==
    /\ left \div DayLen = right \div DayLen
    /\ dim \in {"Hour", "Minute"} =>
          (left % DayLen) \div HourLen = (right % DayLen) \div HourLen
    /\ dim = "Minute" =>
          (left % HourLen) \div MinuteLen = (right % HourLen) \div MinuteLen

\* logger.rs Context::chunk_dimension.
ChunkDimension(c) == c.rotation

\* logger.rs Context::file_dimension.
FileDimension(c) ==
    CASE ChunkDimension(c) = "Minute" -> "Hour"
      [] ChunkDimension(c) = "Hour" -> "Day"
      [] OTHER -> "Day"

RotateChunkNever(c, chunk, rec) == FALSE

\* logger.rs Context::rotate_chunk.
RotateChunk(c, chunk, rec) == ~CheckMatch(ChunkDimension(c), chunk.start, rec.dt)

RotateFileNever(c, lf, chunk) == FALSE

\* logger.rs Context::rotate_file.
RotateFile(c, lf, chunk) == ~CheckMatch(FileDimension(c), chunk.start, lf.dt)

\* ------------------------------------------------------------- IO handler

NoFile == [dt |-> -1, open |-> FALSE, linked |-> FALSE]

\* The chunk as it goes to a file: Chunk's Deref, header + payload[0..length].
Snapshot(c, lf) ==
    [file |-> lf.dt, linked |-> lf.linked, length |-> c.length,
     writeback |-> c.writeback, start |-> c.start, end |-> c.end,
     recs |-> c.recs, dts |-> c.dts, pad |-> c.pad, seal |-> c.seal,
     carry |-> c.carry, by |-> c.by]

\* logfile.rs Logfile::open in write mode: append + create.
LogfileOpen(lf) == IF lf.open THEN lf ELSE [lf EXCEPT !.open = TRUE, !.linked = TRUE]

\* logger.rs Io::write_chunk on the output side (the Right handle).  w is the
\* worker's state [slot, logfile, files, appended]; ok = the file write succeeds.
WriteChunk(c, h, w, ok) ==
    LET out   == BufferOf(h, "Right")
        chunk == w.slot[out]
        kept  == IF w.logfile # NoFile /\ RotateFile(c, w.logfile, chunk)
                 THEN NoFile ELSE w.logfile
        fresh == IF kept = NoFile
                 THEN [dt |-> chunk.start, open |-> FALSE, linked |-> FALSE]
                 ELSE kept
        lf    == IF ok THEN LogfileOpen(fresh) ELSE fresh
        snap  == Snapshot(chunk, lf)
        old   == IF lf.dt \in DOMAIN w.files THEN w.files[lf.dt] ELSE <<>>
    IN  IF chunk.length = 0 THEN w
        ELSE [slot     |-> [w.slot EXCEPT ![out] = ChunkClear(chunk)],
              logfile  |-> lf,
              files    |-> IF ok /\ lf.linked
                           THEN (lf.dt :> Append(old, snap)) @@ w.files
                           ELSE w.files,
              appended |-> IF ok THEN Append(w.appended, snap) ELSE w.appended]

\* Text is a sequence of characters; a timestamp of the model is one digit.
Digits == <<"0", "1", "2", "3", "4", "5", "6", "7", "8", "9">>

\* i64 Display, as used by format! in Logfile::name.
ToText(n) == <<Digits[n + 1]>>

\* str::parse::<i64>, logfile.rs:118.
ParseInt(text) ==
    IF Len(text) = 1 /\ \E d \in 1 .. Len(Digits) : Digits[d] = text[1]
    THEN [ok |-> TRUE, val |-> (CHOOSE d \in 1 .. Len(Digits) : Digits[d] = text[1]) - 1]
    ELSE [ok |-> FALSE, val |-> 0]

FILE_EXTENSION == "pine"

\* logfile.rs Logfile::name: <identifier>-<timestamp>.pine
LogfileName(identifier, dt) ==
    [stem |-> identifier \o <<"-">> \o ToText(dt), ext |-> FILE_EXTENSION]

\* str::split_once: splits at the first occurrence of the separator.
SplitOnce(text, sep) ==
    LET at == {i \in 1 .. Len(text) : text[i] = sep}
        i  == CHOOSE k \in at : \A j \in at : k <= j
    IN  IF at = {} THEN [ok |-> FALSE, left |-> <<>>, right |-> <<>>]
        ELSE [ok |-> TRUE, left |-> SubSeq(text, 1, i - 1),
              right |-> SubSeq(text, i + 1, Len(text))]

\* logfile.rs Logfile::from_entry: the datetime of a directory entry that is
\* a log file of the domain, or no log file at all.
FromEntry(name, identifier) ==
    LET parts == SplitOnce(name.stem, "-")
        ts    == ParseInt(parts.right)
    IN  IF name.ext # FILE_EXTENSION \/ ~parts.ok THEN [ok |-> FALSE, dt |-> 0]
        ELSE IF parts.left # identifier \/ ~ts.ok THEN [ok |-> FALSE, dt |-> 0]
        ELSE [ok |-> TRUE, dt |-> ts.val]

\* logger.rs Io::trim: the threshold, saturating at the ends of i64.
Expires(t, lifetime) == t - lifetime

\* logger.rs Io::trim: the files the enumeration (Logfile::logfiles over the
\* names in the directory) yields and the filter keeps.
Expired(c, fs, t, lifetime) ==
    {f \in DOMAIN fs :
        LET entry == FromEntry(LogfileName(c.identifier, f), c.identifier)
        IN  entry.ok /\ entry.dt < Expires(t, lifetime)}

Worker == [slot |-> slot, logfile |-> logfile, files |-> files, appended |-> appended]

NoOp == [kind |-> "None", rec |-> [id |-> 0, dt |-> 0, size |-> 0], final |-> FALSE]
Op(kind, rec, final) == [kind |-> kind, rec |-> rec, final |-> final]

Event(ev, lifetime) == [ev |-> ev, lifetime |-> lifetime]

NoHandle == "none"

ChannelSendAlways(pc, q, event) == [ok |-> TRUE, queue |-> Append(q, event)]

\* runloop.rs Runloop::on: mpsc::Sender::send fails only when the receiver
\* is gone, which is when the worker thread has left Runloop::run.
ChannelSend(pc, q, event) ==
    IF pc = "stopped" THEN [ok |-> FALSE, queue |-> q]
    ELSE [ok |-> TRUE, queue |-> Append(q, event)]

UnwrapOrPanic(ok, pc) == IF ok THEN pc ELSE "panicked"

\* logger.rs, `.unwrap_or_else(track!(tracker))`: an Err is consumed by the
\* closure and the caller goes on to its next statement.
UnwrapOrTrack(ok, pc) == pc

\* logger.rs track!: the closure hands the error to the tracker.
Track(n, ok) == IF ok THEN n ELSE n + 1

\* ------------------------------------------------------------ construction

\* logger.rs Core::initialize_buffer: both chunks are initialized when either
\* side does not validate.
InitializeBuffer(h, sl, t) ==
    IF ChunkValidate(sl[BufferOf(h, "Left")]) /\ ChunkValidate(sl[BufferOf(h, "Right")])
    THEN sl
    ELSE [s \in Slots |-> ChunkInitialize(sl[s], t)]

\* logger.rs Core::new: the buffer is set up, Io::new writes a non-empty
\* output side at once, the worker is spawned, and the logger enters
\* on(Operation::Writeback).
Start ==
    /\ lpc = "new"
    /\ \E ok \in (IF cfg.ioErr THEN BOOLEAN ELSE {TRUE}) :
        LET h  == BufferInitialize(hdr)
            sl == InitializeBuffer(h, slot, now)
            w  == WriteChunk(cfg, h, [Worker EXCEPT !.slot = sl], ok)
        IN  /\ hdr' = h
            /\ slot' = w.slot
            /\ logfile' = w.logfile
            /\ files' = w.files
            /\ appended' = w.appended
            /\ g' = [g EXCEPT !.ioerr = @ \/ (~ok /\ sl[BufferOf(h, "Right")].length > 0),
                              !.found = [input  |-> sl[BufferOf(h, "Left")],
                                         output |-> sl[BufferOf(h, "Right")]],
                              !.mark = Len(appended), !.enq = 0, !.handled = 0]
    /\ lpc' = "bound"
    /\ lop' = Op("Writeback", NoOp.rec, FALSE)
    /\ ipc' = "recv"
    /\ queue' = <<>>
    /\ held' = [logger |-> BufferOf(hdr', "Left"), io |-> NoHandle]
    /\ UNCHANGED <<cfg, proc, now>>

\* ------------------------------------------------------------ logger API

InputSlot == BufferOf(hdr, "Left")
OutputSlot == BufferOf(hdr, "Right")

\* logger.rs Logger::log: takes the logger mutex and enters on(Input(record));
\* on() binds the chunk to the input side first (logger.rs:266).
Log ==
    /\ lpc = "idle"
    /\ g.ncall < cfg.calls
    /\ \E size \in cfg.sizes, dt \in Times(cfg) :
          lop' = Op("Input", [id |-> g.nrec + 1, dt |-> dt, size |-> size], FALSE)
    /\ lpc' = "bound"
    /\ held' = [held EXCEPT !.logger = InputSlot]
    /\ g' = [g EXCEPT !.nrec = @ + 1, !.ncall = @ + 1,
                      !.mono = @ /\ lop'.rec.dt >= g.lastdt,
                      !.lastdt = IF g.mono /\ lop'.rec.dt >= @ THEN lop'.rec.dt ELSE 0]
    /\ UNCHANGED <<cfg, hdr, slot, ipc, queue, proc, logfile, files, now, appended>>

\* logger.rs Logger::flush: on(Rotate).
Flush ==
    /\ lpc = "idle"
    /\ g.ncall < cfg.calls
    /\ lop' = Op("Rotate", NoOp.rec, FALSE)
    /\ lpc' = "bound"
    /\ held' = [held EXCEPT !.logger = InputSlot]
    /\ g' = [g EXCEPT !.ncall = @ + 1]
    /\ UNCHANGED <<cfg, hdr, slot, ipc, queue, proc, logfile, files, now, appended>>

\* logger.rs Logger::trim -> Core::trim: sends the Trim event.
Trim ==
    /\ lpc = "idle"
    /\ g.ncall < cfg.calls
    /\ \E lifetime \in Times(cfg) :
          LET r == ChannelSend(ipc, queue, Event("Trim", lifetime))
          IN  /\ queue' = r.queue
              /\ g' = [g EXCEPT !.ncall = @ + 1,
                                !.enq = IF r.ok THEN @ + 1 ELSE @,
                                !.ntrack = Track(@, r.ok)]
    /\ UNCHANGED <<cfg, hdr, slot, lpc, lop, ipc, proc, logfile, files, now, appended, held>>

\* logger.rs Logger::shutdown: on(Rotate), then Core::shutdown.
Shutdown ==
    /\ lpc = "idle"
    /\ lop' = Op("Rotate", NoOp.rec, TRUE)
    /\ lpc' = "bound"
    /\ held' = [held EXCEPT !.logger = InputSlot]
    /\ UNCHANGED <<cfg, hdr, slot, ipc, queue, proc, logfile, files, now, appended, g>>

\* ------------------------------------------------------------- Core::on

\* logger.rs Core::on, lines 268-279: the write operation, if any.
WriteOperation(c, op, chunk) ==
    CASE op.kind = "Rotate" -> "Rotate"
      [] op.kind = "Writeback" -> IF chunk.length > 0 THEN "Writeback" ELSE "None"
      [] OTHER -> IF IsAlmostFull(chunk) \/ RotateChunk(c, chunk, op.rec)
                  THEN "Rotate" ELSE "None"

\* logger.rs Processor::process for a write operation.
ProcessWrite(wo, p, chunk) ==
    IF wo = "Rotate" THEN ProcessRotate(p, chunk)
    ELSE ProcessWriteback(p, IF chunk.length > 0 THEN SetWriteback(chunk) ELSE chunk)

\* logger.rs Core::on, lines 266-291: decide on the write operation, run it
\* through the processor, and drop the chunk handle when a switch is due.
Seal ==
    /\ lpc = "bound"
    /\ LET chunk == slot[InputSlot]
           wo    == WriteOperation(cfg, lop, chunk)
           r     == ProcessWrite(wo, proc, chunk)
           due   == r.chunk.length > 0
       IN  IF wo = "None"
           THEN /\ lpc' = "input"
                /\ UNCHANGED <<slot, proc, held, g>>
           ELSE /\ slot' = [slot EXCEPT ![InputSlot] =
                       IF due
                       THEN [r.chunk EXCEPT !.seal = g.nseal + 1, !.by = wo,
                                            !.carry = r.proc.enc + r.proc.cip]
                       ELSE r.chunk]
                /\ proc' = r.proc
                /\ g' = [g EXCEPT !.overflow = @ \/ ~r.ok,
                                  !.ntrack = Track(@, r.ok),
                                  !.nseal = IF due THEN @ + 1 ELSE @]
                /\ lpc' = UnwrapOrTrack(r.ok, IF due THEN "switch" ELSE "init")
                /\ held' = [held EXCEPT !.logger = IF due THEN NoHandle ELSE @]
    /\ UNCHANGED <<cfg, hdr, lop, ipc, queue, logfile, files, now, appended>>

SwitchUnlocked(h) == TRUE

\* buffer.rs Buffer::switch takes the write lock of the RwLock: it waits
\* until no BufferHandle (read guard) is outstanding.
SwitchAllowed(h) == h.logger = NoHandle /\ h.io = NoHandle

\* logger.rs Core::on, lines 292-293: switch, then rebind the chunk.
Switch ==
    /\ lpc = "switch"
    /\ SwitchAllowed(held)
    /\ hdr' = BufferSwitch(hdr)
    /\ held' = [held EXCEPT !.logger = BufferOf(hdr', "Left")]
    /\ lpc' = "enqueue"
    /\ UNCHANGED <<cfg, slot, lop, ipc, queue, proc, logfile, files, now, appended, g>>

\* logger.rs Core::on, lines 296-298: send the WriteChunk event.
Enqueue ==
    /\ lpc = "enqueue"
    /\ LET r == ChannelSend(ipc, queue, Event("WriteChunk", 0))
       IN  /\ queue' = r.queue
           /\ g' = [g EXCEPT !.enq = IF r.ok THEN @ + 1 ELSE @,
                             !.ntrack = Track(@, r.ok)]
           /\ lpc' = UnwrapOrTrack(r.ok, "init")
    /\ UNCHANGED <<cfg, hdr, slot, lop, ipc, proc, logfile, files, now, appended, held>>

\* logger.rs Core::on, lines 301-313: re-initialize the chunk after a write
\* operation, process the record of an Input, return (the handle is dropped).
Finish ==
    /\ lpc \in {"init", "input"}
    /\ LET chunk == slot[InputSlot]
           dt    == IF lop.kind = "Input" THEN lop.rec.dt ELSE now
           c1    == IF lpc = "init" THEN ChunkInitialize(chunk, dt) ELSE chunk
           r     == IF lop.kind = "Input" THEN ProcessInput(proc, c1, lop.rec)
                    ELSE [proc |-> proc, chunk |-> c1, ok |-> TRUE]
       IN  /\ slot' = [slot EXCEPT ![InputSlot] = r.chunk]
           /\ proc' = r.proc
           /\ g' = [g EXCEPT !.overflow = @ \/ ~r.ok, !.ntrack = Track(@, r.ok)]
           /\ lpc' = UnwrapOrTrack(r.ok, IF lop.final THEN "shutdown" ELSE "idle")
    /\ lop' = NoOp
    /\ held' = [held EXCEPT !.logger = NoHandle]
    /\ UNCHANGED <<cfg, hdr, ipc, queue, logfile, files, now, appended>>

\* logger.rs Core::shutdown, line 323: send the Shutdown event.
SendShutdown ==
    /\ lpc = "shutdown"
    /\ queue' = Append(queue, Event("Shutdown", 0))
    /\ g' = [g EXCEPT !.enq = @ + 1]
    /\ lpc' = "join"
    /\ UNCHANGED <<cfg, hdr, slot, lop, ipc, proc, logfile, files, now, appended, held>>

\* logger.rs Core::shutdown, line 324, runloop.rs Runloop::join.
Join ==
    /\ lpc = "join"
    /\ ipc = "stopped"
    /\ lpc' = "done"
    /\ UNCHANGED <<cfg, hdr, slot, lop, ipc, queue, proc, logfile, files, now, appended, held, g>>

\* ------------------------------------------------------------- IO worker

NextEventAny(q) == IF \E i \in 1 .. Len(q) : q[i].ev = "Shutdown"
                   THEN Event("Shutdown", 0) ELSE Head(q)

\* runloop.rs Runloop::run: receiver.recv() yields the events in send order.
NextEvent(q) == Head(q)

\* runloop.rs Runloop::run + Io::handle, WriteChunk: Io::write_chunk binds
\* the chunk to the output side (logger.rs:430).
RecvWriteChunk ==
    /\ ipc = "recv"
    /\ queue # <<>>
    /\ NextEvent(queue).ev = "WriteChunk"
    /\ queue' = Tail(queue)
    /\ ipc' = "write"
    /\ held' = [held EXCEPT !.io = OutputSlot]
    /\ UNCHANGED <<cfg, hdr, slot, lpc, lop, proc, logfile, files, now, appended, g>>

\* logger.rs Io::write_chunk, lines 431-457, the handle dropped on return.
IoWriteChunk ==
    /\ ipc = "write"
    /\ \E ok \in (IF cfg.ioErr THEN BOOLEAN ELSE {TRUE}) :
        LET w == WriteChunk(cfg, hdr, Worker, ok)
        IN  /\ slot' = w.slot
            /\ logfile' = w.logfile
            /\ files' = w.files
            /\ appended' = w.appended
            /\ g' = [g EXCEPT !.ioerr = @ \/ (~ok /\ slot[OutputSlot].length > 0),
                              !.ntrack = Track(@, ok \/ slot[OutputSlot].length = 0),
                              !.handled = @ + 1]
            /\ ipc' = UnwrapOrTrack(ok \/ slot[OutputSlot].length = 0, "recv")
    /\ held' = [held EXCEPT !.io = NoHandle]
    /\ UNCHANGED <<cfg, hdr, lpc, lop, queue, proc, now>>

\* runloop.rs Runloop::run + Io::handle, Trim: logger.rs Io::trim.  ok = the
\* directory can be read; a failed enumeration is tracked and deletes nothing.
IoTrim ==
    /\ ipc = "recv"
    /\ queue # <<>>
    /\ NextEvent(queue).ev = "Trim"
    /\ queue' = Tail(queue)
    /\ \E ok \in (IF cfg.ioErr THEN BOOLEAN ELSE {TRUE}) :
        LET gone == IF ok THEN Expired(cfg, files, now, NextEvent(queue).lifetime) ELSE {}
        IN  /\ files' = [f \in DOMAIN files \ gone |-> files[f]]
            /\ logfile' = IF logfile.open /\ logfile.dt \in gone
                          THEN [logfile EXCEPT !.linked = FALSE] ELSE logfile
            /\ g' = [g EXCEPT !.handled = @ + 1, !.ioerr = @ \/ ~ok,
                              !.ntrack = Track(@, ok)]
            /\ ipc' = UnwrapOrTrack(ok, "recv")
    /\ UNCHANGED <<cfg, hdr, slot, lpc, lop, proc, now, appended, held>>

StopIgnored(pc) == pc

\* runloop.rs Context::stop, seen by the loop condition of Runloop::run.
Stop(pc) == "stopped"

\* runloop.rs Runloop::run + Io::handle, Shutdown: context.stop() ends the loop.
IoShutdown ==
    /\ ipc = "recv"
    /\ queue # <<>>
    /\ NextEvent(queue).ev = "Shutdown"
    /\ queue' = Tail(queue)
    /\ ipc' = Stop(ipc)
    /\ g' = [g EXCEPT !.handled = @ + 1]
    /\ UNCHANGED <<cfg, hdr, slot, lpc, lop, proc, logfile, files, now, appended, held>>

\* ------------------------------------------------------------ environment

\* The wall clock advances.
Tick ==
    /\ now < cfg.maxTime
    /\ now' = now + 1
    /\ UNCHANGED <<cfg, hdr, slot, lpc, lop, ipc, queue, proc, logfile, files, appended, held, g>>

\* The process dies (panic, kill): threads, channel, processor and file
\* handles are gone; the memory-mapped buffer file and the log files stay.
\* The next step is a new Logger on the same domain.
Crash ==
    /\ lpc # "new"
    /\ g.ncrash < cfg.crashes
    /\ lpc' = "new"
    /\ lop' = NoOp
    /\ ipc' = "none"
    /\ queue' = <<>>
    /\ proc' = NewProcessor
    /\ logfile' = NoFile
    /\ held' = [logger |-> NoHandle, io |-> NoHandle]
    /\ g' = [g EXCEPT !.ncrash = @ + 1, !.clean = (lpc = "done")]
    /\ UNCHANGED <<cfg, hdr, slot, files, now, appended>>

\* ---------------------------------------------------------- specifications

NoChunks == [input |-> ZeroChunk, output |-> ZeroChunk]

InitWith(c) ==
    /\ cfg = c
    /\ hdr = [magic |-> FALSE, alpha_side |-> "Zero"]
    /\ slot = [s \in Slots |-> ZeroChunk]
    /\ lpc = "new"
    /\ lop = NoOp
    /\ ipc = "none"
    /\ queue = <<>>
    /\ proc = NewProcessor
    /\ logfile = NoFile
    /\ files = <<>>
    /\ now = 0
    /\ appended = <<>>
    /\ held = [logger |-> NoHandle, io |-> NoHandle]
    /\ g = [nrec |-> 0, ncall |-> 0, ncrash |-> 0, nseal |-> 0,
            enq |-> 0, handled |-> 0, overflow |-> FALSE, ioerr |-> FALSE,
            clean |-> TRUE, found |-> NoChunks, mark |-> 0,
            mono |-> TRUE, lastdt |-> 0, ntrack |-> 0]

\* A crash-free run of one logger on a fresh buffer file.
Config ==
    [calls |-> MaxCalls, crashes |-> 0, maxTime |-> MaxTime,
     sizes |-> {SmallRec}, ioErr |-> FALSE, rotation |-> "Minute",
     identifier |-> <<"a">>]

Init == InitWith(Config)

CoreStep == Start \/ Log \/ Flush \/ Shutdown
              \/ Seal \/ Switch \/ Enqueue \/ Finish \/ SendShutdown \/ Join

IoStep == RecvWriteChunk \/ IoWriteChunk \/ IoShutdown

Next == CoreStep \/ IoStep \/ Trim \/ IoTrim \/ Tick

Spec == Init /\ [][Next]_vars

\* Crash-free runs in which file writes may fail, with the threads scheduled
\* fairly: the worker thread keeps running, and the thread in join()
\* continues once the worker has ended.
FairConfig ==
    [calls |-> FairCalls, crashes |-> 0, maxTime |-> MaxTime,
     sizes |-> {SmallRec}, ioErr |-> TRUE, rotation |-> "Minute",
     identifier |-> <<"a">>]

FairInit == InitWith(FairConfig)

FairSpec == FairInit /\ [][Next]_vars /\ WF_vars(IoStep \/ IoTrim) /\ WF_vars(Join)

\* Runs with process crashes, each followed by a new logger on the same
\* buffer file.
RecoveryConfig ==
    [calls |-> RecoveryCalls, crashes |-> MaxCrashes, maxTime |-> 0,
     sizes |-> {SmallRec}, ioErr |-> FALSE, rotation |-> "Minute",
     identifier |-> <<"a">>]

RecoveryInit == InitWith(RecoveryConfig)

RecoveryNext == CoreStep \/ IoStep \/ Crash

RecoverySpec == RecoveryInit /\ [][RecoveryNext]_vars

\* Runs with process crashes over a clock that crosses a minute, so that a
\* new logger finds chunk headers stamped by the run before.
RestartConfig == [RecoveryConfig EXCEPT !.calls = TimeCalls, !.maxTime = MaxTime]

RestartInit == InitWith(RestartConfig)

RestartNext == RecoveryNext \/ Tick

RestartSpec == RestartInit /\ [][RestartNext]_vars

\* Crash-free runs with small and large records, so that chunks fill up.
PipeConfig ==
    [calls |-> PipeCalls, crashes |-> 0, maxTime |-> 0,
     sizes |-> {SmallRec, BigRec}, ioErr |-> FALSE, rotation |-> "Minute",
     identifier |-> <<"a">>]

PipeInit == InitWith(PipeConfig)

PipeNext == CoreStep \/ IoStep

PipeSpec == PipeInit /\ [][PipeNext]_vars

\* The pipeline with record datetimes in two rotation buckets.
InputConfig == [PipeConfig EXCEPT !.maxTime = MaxTime]

InputInit == InitWith(InputConfig)

InputSpec == InputInit /\ [][PipeNext]_vars

\* The pipeline with trim() calls, where the caller's thread keeps running
\* inside Core::on and the worker thread keeps running its loop.
CallNext == PipeNext \/ Trim \/ IoTrim

CallSpec ==
    /\ PipeInit /\ [][CallNext]_vars
    /\ WF_vars(Seal \/ Switch \/ Enqueue \/ Finish)
    /\ WF_vars(IoStep \/ IoTrim)

\* Crash-free runs under each rotation dimension, over a clock that crosses
\* minutes, hours and a day.
Rotations == {"Minute", "Hour", "Day"}

TimeConfig(rotation) ==
    [calls |-> TimeCalls, crashes |-> 0, maxTime |-> TimeMax,
     sizes |-> {SmallRec}, ioErr |-> FALSE, rotation |-> rotation,
     identifier |-> <<"a">>]

TimeInit == \E rotation \in Rotations : InitWith(TimeConfig(rotation))

TimeNext == CoreStep \/ IoStep \/ Tick

TimeSpec == TimeInit /\ [][TimeNext]_vars

\* The double buffer on its own, as buffer.rs tests::test_buffer drives it:
\* a region with any header is given to buffer::initialize, then bytes are
\* written through the named handles and the sides are switched.  The slots
\* hold plain byte sequences here; g.last is the view <<Left, Right>> the
\* handles gave just before the most recent switch.
HeaderBytes ==
    {[magic |-> m, alpha_side |-> a] : m \in BOOLEAN, a \in Sides \cup {"Zero"}}

\* buffer.rs Buffer::handle + Deref: the bytes a named handle shows.
HandleBytes(h, sl, side) == sl[BufferOf(h, side)]

BufferInit ==
    /\ cfg = Config
    /\ hdr \in HeaderBytes
    /\ slot \in [Slots -> {<<>>, <<MaxByte>>}]
    /\ lpc = "new"
    /\ lop = NoOp
    /\ ipc = "none"
    /\ queue = <<>>
    /\ proc = NewProcessor
    /\ logfile = NoFile
    /\ files = <<>>
    /\ now = 0
    /\ appended = <<>>
    /\ held = [logger |-> NoHandle, io |-> NoHandle]
    /\ g = [nsw |-> 0, last |-> <<>>, found |-> <<>>]

\* buffer.rs initialize -> BufferInner::new.
BufferNew ==
    /\ lpc = "new"
    /\ hdr' = BufferInitialize(hdr)
    /\ lpc' = "ready"
    /\ g' = [g EXCEPT !.found = <<hdr>>]
    /\ UNCHANGED <<cfg, slot, lop, ipc, queue, proc, logfile, files, now, appended, held>>

\* buffer.rs DerefMut of a BufferHandle: a byte written through a named handle.
BufferWrite ==
    /\ lpc = "ready"
    /\ \E side \in Sides, b \in 1 .. MaxByte :
          /\ Len(HandleBytes(hdr, slot, side)) < MaxBufLen
          /\ slot' = [slot EXCEPT ![BufferOf(hdr, side)] = Append(@, b)]
    /\ UNCHANGED <<cfg, hdr, lpc, lop, ipc, queue, proc, logfile, files, now, appended, held, g>>

\* buffer.rs Buffer::switch (either Buffer of the pair: both share the inner).
BufferSwitchSides ==
    /\ lpc = "ready"
    /\ g.nsw < MaxSwitches
    /\ hdr' = BufferSwitch(hdr)
    /\ g' = [g EXCEPT !.nsw = g.nsw + 1,
                      !.last = <<HandleBytes(hdr, slot, "Left"), HandleBytes(hdr, slot, "Right")>>]
    /\ UNCHANGED <<cfg, slot, lpc, lop, ipc, queue, proc, logfile, files, now, appended, held>>

BufferNext == BufferNew \/ BufferWrite \/ BufferSwitchSides

BufferSpec == BufferInit /\ [][BufferNext]_vars

\* The chunk on its own: a slice with any header bytes is bound, validated or
\* initialized as Core::initialize_buffer does, and then driven through the
\* mutating operations of chunk.rs in any order.  The operations go to the
\* Alpha slot.
ChunkBytes ==
    {[ZeroChunk EXCEPT !.valid = v, !.length = n] :
        v \in BOOLEAN, n \in {0, SmallRec, Capacity + 1}}

\* chunk.rs Chunk::write called directly with n bytes; dts keeps, for the
\* chunk on its own, where in the payload each accepted slice was copied.
ChunkWriteBytes(c, n) ==
    LET st == ChunkWrite(PipeState(NewProcessor, c), n)
    IN  [c EXCEPT !.length = st.len,
                  !.dts = IF st.ok THEN Append(@, [off |-> c.length, len |-> n]) ELSE @]

ChunkInit ==
    /\ cfg = Config
    /\ hdr = HeaderDefault
    /\ slot \in [Slots -> ChunkBytes]
    /\ lpc = "new"
    /\ lop = NoOp
    /\ ipc = "none"
    /\ queue = <<>>
    /\ proc = NewProcessor
    /\ logfile = NoFile
    /\ files = <<>>
    /\ now = 0
    /\ appended = <<>>
    /\ held = [logger |-> NoHandle, io |-> NoHandle]
    /\ g = [nops |-> 0, refused |-> FALSE, wrote |-> 0]

\* chunk.rs Chunk::bind + logger.rs Core::initialize_buffer.
ChunkBind ==
    /\ lpc = "new"
    /\ \E t \in Times(cfg) : slot' = InitializeBuffer(hdr, slot, t)
    /\ lpc' = "ready"
    /\ UNCHANGED <<cfg, hdr, lop, ipc, queue, proc, logfile, files, now, appended, held, g>>

ChunkOp(c) ==
    /\ lpc = "ready"
    /\ slot' = [slot EXCEPT !["Alpha"] = c]
    /\ UNCHANGED <<cfg, hdr, lpc, lop, ipc, queue, proc, logfile, files, now, appended, held>>

ChunkDoInitialize ==
    /\ \E t \in Times(cfg) : ChunkOp(ChunkInitialize(slot["Alpha"], t))
    /\ g' = [g EXCEPT !.wrote = 0]

\* wrote is the length of the slice when the step is a write, and refused
\* tells that some write returned Overflow.
ChunkDoWrite ==
    \E n \in {SmallRec, BigRec} :
        /\ ChunkOp(ChunkWriteBytes(slot["Alpha"], n))
        /\ g' = [g EXCEPT !.wrote = n,
                          !.refused = @ \/ ~ChunkWrite(PipeState(NewProcessor, slot["Alpha"]), n).ok]

ChunkDoSetEnd ==
    /\ \E t \in Times(cfg) : ChunkOp(SetEndDatetime(slot["Alpha"], t))
    /\ g' = [g EXCEPT !.wrote = 0]

ChunkDoSetWriteback ==
    /\ ChunkOp(SetWriteback(slot["Alpha"]))
    /\ g' = [g EXCEPT !.wrote = 0]

ChunkDoClear ==
    /\ ChunkOp(ChunkClear(slot["Alpha"]))
    /\ g' = [g EXCEPT !.wrote = 0]

ChunkNext ==
    ChunkBind \/ ChunkDoInitialize \/ ChunkDoWrite \/ ChunkDoSetEnd
        \/ ChunkDoSetWriteback \/ ChunkDoClear

ChunkSpec == ChunkInit /\ [][ChunkNext]_vars

\* ------------------------------------------------ the runloop on its own

\* runloop.rs Runloop::run: the thread is spawned, Context::new().
RunloopInit ==
    /\ cfg = Config
    /\ hdr = HeaderDefault
    /\ slot = [s \in Slots |-> ZeroChunk]
    /\ lpc = "idle"
    /\ lop = NoOp
    /\ ipc = "recv"
    /\ queue = <<>>
    /\ proc = NewProcessor
    /\ logfile = NoFile
    /\ files = <<>>
    /\ now = 0
    /\ appended = <<>>
    /\ held = [logger |-> NoHandle, io |-> NoHandle]
    /\ g = [is_stopped |-> FALSE, sends |-> 0, errs |-> 0, late |-> 0, handled |-> 0]

\* runloop.rs Runloop::on, called by any holder of the runloop.
RunloopOn ==
    /\ g.sends < MaxSends
    /\ \E ev \in {"Trim", "Shutdown"} :
          LET r == ChannelSend(ipc, queue, Event(ev, 0))
          IN  /\ queue' = r.queue
              /\ g' = [g EXCEPT !.sends = @ + 1,
                                !.errs = IF r.ok THEN @ ELSE @ + 1,
                                !.late = IF r.ok /\ g.is_stopped THEN @ + 1 ELSE @]
    /\ UNCHANGED <<cfg, hdr, slot, lpc, lop, ipc, proc, logfile, files, now, appended, held>>

\* runloop.rs Runloop::run, loop body: receiver.recv() and handler.handle;
\* the handler calls context.stop() on the stop event (logger.rs:485).
RunloopHandle ==
    /\ ipc = "recv"
    /\ queue # <<>>
    /\ queue' = Tail(queue)
    /\ g' = [g EXCEPT !.is_stopped = NextEvent(queue).ev = "Shutdown",
                      !.handled = @ + 1]
    /\ ipc' = "loop"
    /\ UNCHANGED <<cfg, hdr, slot, lpc, lop, proc, logfile, files, now, appended, held>>

\* runloop.rs Runloop::run, loop condition: with the flag set the closure
\* returns, which drops the receiver and what is left in the channel.
RunloopLoop ==
    /\ ipc = "loop"
    /\ ipc' = IF g.is_stopped THEN Stop(ipc) ELSE "recv"
    /\ queue' = IF g.is_stopped THEN <<>> ELSE queue
    /\ UNCHANGED <<cfg, hdr, slot, lpc, lop, proc, logfile, files, now, appended, held, g>>

RunloopNext == RunloopOn \/ RunloopHandle \/ RunloopLoop

RunloopSpec == RunloopInit /\ [][RunloopNext]_vars

\* ------------------------------------------------------------ extraction

\* sort_by_key(|f| f.datetime()) of extract.rs logfiles, on a set of datetimes.
RECURSIVE SortByDatetime(_)
SortByDatetime(set) ==
    IF set = {} THEN <<>>
    ELSE LET first == CHOOSE x \in set : \A y \in set : x <= y
         IN  <<first>> \o SortByDatetime(set \ {first})

\* extract.rs logfiles, the loop: stop at the first file dated at or after
\* the end of the range; a file dated at or before the start replaces the
\* files selected so far.
RECURSIVE SelectLogfiles(_, _, _, _)
SelectLogfiles(original, a, b, acc) ==
    IF original = <<>> \/ Head(original) >= b THEN acc
    ELSE SelectLogfiles(Tail(original), a, b,
            IF Head(original) <= a /\ acc # <<>>
            THEN <<Head(original)>> ELSE Append(acc, Head(original)))

\* extract.rs logfiles: the files Logfile::logfiles yields for the domain,
\* sorted, then selected.
ExtractLogfiles(c, fs, a, b) ==
    LET found == {f \in DOMAIN fs :
                     FromEntry(LogfileName(c.identifier, f), c.identifier).ok}
    IN  SelectLogfiles(SortByDatetime(found), a, b, <<>>)

\* common.rs LazyFileWriter inside a BufWriter: buf = bytes held by the
\* BufWriter, created = the destination file was opened (inner.is_some()).
NewWriter == [buf |-> 0, created |-> FALSE, chunks |-> <<>>]

\* Write::write_all on the BufWriter for one chunk: header and payload.
WriterWrite(w, chunk) ==
    [w EXCEPT !.buf = @ + Header_LEN + chunk.length, !.chunks = Append(@, chunk)]

WriterIntoInnerEager(w) == [w EXCEPT !.buf = 0, !.created = TRUE]

\* BufWriter::into_inner: the held bytes go to LazyFileWriter::write, which
\* opens the file on its first call.
WriterIntoInner(w) == [w EXCEPT !.buf = 0, !.created = @ \/ w.buf > 0]

\* extract.rs extract_chunks on one log file.
RECURSIVE ExtractChunks(_, _, _, _)
ExtractChunks(chunks, w, a, b) ==
    IF chunks = <<>> \/ Head(chunks).start > b THEN w
    ELSE ExtractChunks(Tail(chunks),
            IF Head(chunks).end < a THEN w ELSE WriterWrite(w, Head(chunks)), a, b)

RECURSIVE ExtractFiles(_, _, _, _, _)
ExtractFiles(fs, selected, w, a, b) ==
    IF selected = <<>> THEN w
    ELSE ExtractFiles(fs, Tail(selected), ExtractChunks(fs[Head(selected)], w, a, b), a, b)

\* extract.rs extract, every read succeeding: the result and the destination.
Extract(c, fs, a, b) ==
    LET w == WriterIntoInner(ExtractFiles(fs, ExtractLogfiles(c, fs, a, b), NewWriter, a, b))
    IN  [result |-> IF ~w.created THEN "NotFound" ELSE "Ok",
         created |-> w.created, chunks |-> w.chunks]

\* The chunks of the log files whose time range intersects [a, b].
Intersecting(fs, a, b) ==
    {ch \in UNION {{fs[f][i] : i \in 1 .. Len(fs[f])} : f \in DOMAIN fs} :
        ch.end >= a /\ ch.start <= b}

Range(seq) == {seq[i] : i \in 1 .. Len(seq)}

\* ------------------------------------------------ trimming a directory

\* Domain identifiers are any String (lib.rs Domain::new).
Identifiers == {<<"a">>, <<"a", "-", "b">>}

\* Entries of the directory that are not log files of the domain: a log file
\* of another domain, a plain log of this one, a log file of a domain whose
\* identifier extends this one.
Foreign(identifier) ==
    {[stem |-> <<"c", "-", "0">>, ext |-> FILE_EXTENSION],
     [stem |-> identifier \o <<"-", "0">>, ext |-> "log"],
     [stem |-> identifier \o <<"-", "c", "-", "0">>, ext |-> FILE_EXTENSION]}

TrimInit ==
    /\ \E identifier \in Identifiers :
          /\ cfg = [TimeConfig("Minute") EXCEPT !.identifier = identifier]
          /\ files = [n \in Foreign(identifier) |-> <<>>]
    /\ hdr = HeaderDefault
    /\ slot = [s \in Slots |-> ZeroChunk]
    /\ lpc = "idle"
    /\ lop = NoOp
    /\ ipc = "recv"
    /\ queue = <<>>
    /\ proc = NewProcessor
    /\ logfile = NoFile
    /\ now = 0
    /\ appended = <<>>
    /\ held = [logger |-> NoHandle, io |-> NoHandle]
    /\ g = [ncall |-> 0, enq |-> 0, ntrack |-> 0, own |-> {}, before |-> {}, expires |-> 0]

\* logger.rs Io::write_chunk, lines 438-444, and Logfile::open in write mode:
\* the worker creates the log file named after a chunk's start datetime.
TrimCreate ==
    /\ ipc = "recv"
    /\ \E dt \in 0 .. now :
          LET name == LogfileName(cfg.identifier, dt)
          IN  /\ name \notin DOMAIN files
              /\ files' = (name :> <<>>) @@ files
              /\ g' = [g EXCEPT !.own = @ \cup {[name |-> name, dt |-> dt]}]
    /\ UNCHANGED <<cfg, hdr, slot, lpc, lop, ipc, queue, proc, logfile, now, appended, held>>

\* runloop.rs Runloop::run + Io::handle, Trim: logger.rs Io::trim over the
\* entries of the directory (Logfile::logfiles, Logfile::delete).
TrimHandle ==
    /\ ipc = "recv"
    /\ queue # <<>>
    /\ NextEvent(queue).ev = "Trim"
    /\ queue' = Tail(queue)
    /\ LET expires == Expires(now, NextEvent(queue).lifetime)
           gone    == {n \in DOMAIN files :
                          LET entry == FromEntry(n, cfg.identifier)
                          IN  entry.ok /\ entry.dt < expires}
       IN  /\ files' = [n \in DOMAIN files \ gone |-> files[n]]
           /\ g' = [g EXCEPT !.before = DOMAIN files, !.expires = expires]
    /\ ipc' = "trimmed"
    /\ UNCHANGED <<cfg, hdr, slot, lpc, lop, proc, logfile, now, appended, held>>

\* runloop.rs Runloop::run: back to receiver.recv().
TrimReturn ==
    /\ ipc = "trimmed"
    /\ ipc' = "recv"
    /\ UNCHANGED <<cfg, hdr, slot, lpc, lop, queue, proc, logfile, files, now, appended, held, g>>

TrimNext == Trim \/ TrimCreate \/ TrimHandle \/ TrimReturn \/ Tick

TrimSpec == TrimInit /\ [][TrimNext]_vars

\* ---------------------------------------------------- the cipher's content

\* The block cipher is kept symbolic: byte i of the encryption of a block is
\* the pair of the block and i, and a run of bytes decrypts to the block
\* only when it is exactly the bytes 1 .. block of one encrypted block; any
\* other run decrypts to bytes 0, which are no plaintext and no padding.
\* Block and buffer lengths are those of cfg (block, encryptor, decryptor).
BlockOf(bytes, i) ==
    LET first == ((i - 1) \div cfg.block) * cfg.block + 1
    IN  SubSeq(bytes, first, first + cfg.block - 1)

EncryptBlocks(bytes) ==
    [i \in 1 .. Len(bytes) |->
        [blk |-> BlockOf(bytes, i), i |-> ((i - 1) % cfg.block) + 1]]

DecryptBlocks(bytes) ==
    [i \in 1 .. Len(bytes) |->
        LET cb == BlockOf(bytes, i)
        IN  IF \A j \in 1 .. cfg.block : cb[j] = [blk |-> cb[1].blk, i |-> j]
            THEN cb[1].blk[((i - 1) % cfg.block) + 1] ELSE 0]

\* cipher's encrypt_padded on the first len bytes of a buffer of the given
\* capacity: NoPadding wants whole blocks, Pkcs7 appends 1 .. block bytes of
\* that count and wants room for them.
EncryptPadded(buffer, len, pkcs7, capacity) ==
    LET padded == (len \div cfg.block + 1) * cfg.block
        msg    == SubSeq(buffer, 1, len)
    IN  IF pkcs7
        THEN IF padded > capacity THEN [ok |-> FALSE, bytes |-> <<>>]
             ELSE [ok |-> TRUE,
                   bytes |-> EncryptBlocks(msg \o [i \in 1 .. padded - len |-> padded - len])]
        ELSE IF len % cfg.block # 0 THEN [ok |-> FALSE, bytes |-> <<>>]
             ELSE [ok |-> TRUE, bytes |-> EncryptBlocks(msg)]

\* cipher's decrypt_padded: whole blocks only; Pkcs7 wants a last block and
\* strips its padding, NoPadding returns the blocks as they are.
DecryptPadded(bytes, pkcs7) ==
    LET plain == DecryptBlocks(bytes)
        n     == IF plain = <<>> THEN 0 ELSE plain[Len(plain)]
    IN  IF Len(bytes) % cfg.block # 0 THEN [ok |-> FALSE, bytes |-> <<>>]
        ELSE IF ~pkcs7 THEN [ok |-> TRUE, bytes |-> plain]
        ELSE IF \/ n \notin 1 .. cfg.block
                \/ \E i \in Len(plain) - n + 1 .. Len(plain) : plain[i] # n
        THEN [ok |-> FALSE, bytes |-> <<>>]
        ELSE [ok |-> TRUE, bytes |-> SubSeq(plain, 1, Len(plain) - n)]

\* common.rs BytesBuf::buffer: how many bytes of the input the buffer takes.
Buffered(buffer, capacity, input) == Min(Len(input), capacity - Len(buffer))

SinkLenAll(buffer, pad) == Len(buffer)

\* encrypt.rs BytesBuf::sink, the length handled and drained: everything
\* when padding, the whole-block prefix otherwise.
SinkLen(buffer, pad) ==
    IF pad THEN Len(buffer) ELSE (Len(buffer) \div cfg.block) * cfg.block

\* A stream half: its buffer, what it has sunk, and ok = no error so far.
NewStream == [buffer |-> <<>>, sink |-> <<>>, ok |-> TRUE]

\* encrypt.rs aes::Encryptor::encrypt, EncryptOp::Input.
RECURSIVE EncryptorInput(_, _)
EncryptorInput(st, input) ==
    IF input = <<>> \/ ~st.ok THEN st
    ELSE LET buffered == Buffered(st.buffer, cfg.encryptor, input)
             buffer   == st.buffer \o SubSeq(input, 1, buffered)
             len      == SinkLen(buffer, FALSE)
             out      == EncryptPadded(buffer, len, FALSE, cfg.encryptor)
         IN  IF ~out.ok THEN [st EXCEPT !.buffer = buffer, !.ok = FALSE]
             ELSE EncryptorInput(
                      [st EXCEPT !.buffer = SubSeq(buffer, len + 1, Len(buffer)),
                                 !.sink = @ \o out.bytes],
                      SubSeq(input, buffered + 1, Len(input)))

\* encrypt.rs aes::Encryptor::encrypt, EncryptOp::Flush.
EncryptorFlush(st) ==
    LET len == SinkLen(st.buffer, TRUE)
        out == EncryptPadded(st.buffer, len, TRUE, cfg.encryptor)
    IN  IF ~out.ok THEN [st EXCEPT !.ok = FALSE]
        ELSE [st EXCEPT !.buffer = <<>>, !.sink = @ \o out.bytes]

ReachedToEndNever(reached_to_end, buffered, input) == FALSE

\* encrypt.rs aes::Decryptor::decrypt: reached_to_end && buffered == input.len().
ReachedToEnd(reached_to_end, buffered, input) ==
    reached_to_end /\ buffered = Len(input)

\* encrypt.rs aes::Decryptor::decrypt.
RECURSIVE DecryptorDecrypt(_, _, _)
DecryptorDecrypt(st, input, reached_to_end) ==
    IF input = <<>> \/ ~st.ok THEN st
    ELSE LET buffered == Buffered(st.buffer, cfg.decryptor, input)
             buffer   == st.buffer \o SubSeq(input, 1, buffered)
             last     == ReachedToEnd(reached_to_end, buffered, input)
             len      == SinkLen(buffer, last)
             out      == DecryptPadded(SubSeq(buffer, 1, len), last)
         IN  IF ~out.ok THEN [st EXCEPT !.buffer = buffer, !.ok = FALSE]
             ELSE DecryptorDecrypt(
                      [st EXCEPT !.buffer = SubSeq(buffer, len + 1, Len(buffer)),
                                 !.sink = @ \o out.bytes],
                      SubSeq(input, buffered + 1, Len(input)), reached_to_end)

\* The lengths of the cipher runs: blocks of BlockLen bytes, an encryptor
\* buffer of EncryptorBlocks and a decryptor buffer of DecryptorBlocks blocks.
CipherConfig ==
    [Config EXCEPT !.calls = 0] @@
    [block |-> BlockLen, encryptor |-> EncryptorBlocks * BlockLen,
     decryptor |-> DecryptorBlocks * BlockLen]

\* Plaintexts: up to MaxPlain bytes that are also padding bytes.
Plains == UNION {[1 .. n -> {1, 2}] : n \in 0 .. MaxPlain}

CipherInit ==
    /\ cfg = CipherConfig
    /\ hdr = HeaderDefault
    /\ slot = [s \in Slots |-> ZeroChunk]
    /\ lpc = "encrypt"
    /\ lop = NoOp
    /\ ipc = "none"
    /\ queue \in Plains
    /\ proc = NewProcessor
    /\ logfile = NoFile
    /\ files = <<>>
    /\ now = 0
    /\ appended = <<>>
    /\ held = [logger |-> NoHandle, io |-> NoHandle]
    /\ g = [plain |-> queue, enc |-> NewStream, whole |-> TRUE, cipher |-> <<>>,
            dec |-> NewStream, last |-> 0, inputs |-> 0, slices |-> 0]

\* encryptor.encrypt(EncryptOp::Input(..)) on the next k bytes of the plaintext
\* (inputs and slices count the calls up to three).
CipherInput ==
    /\ lpc = "encrypt"
    /\ \E k \in 0 .. Len(queue) :
          LET st == EncryptorInput(g.enc, SubSeq(queue, 1, k))
          IN  /\ g' = [g EXCEPT !.enc = st, !.inputs = Min(@ + 1, 3),
                           !.whole = @ /\ (Len(st.sink) - Len(g.enc.sink)) % cfg.block = 0]
              /\ queue' = SubSeq(queue, k + 1, Len(queue))
    /\ UNCHANGED <<cfg, hdr, slot, lpc, lop, ipc, proc, logfile, files, now, appended, held>>

\* encryptor.encrypt(EncryptOp::Flush) after the whole plaintext.
CipherFlush ==
    /\ lpc = "encrypt"
    /\ queue = <<>>
    /\ LET st == EncryptorFlush(g.enc)
       IN  /\ g' = [g EXCEPT !.enc = st, !.cipher = st.sink]
           /\ queue' = st.sink
    /\ lpc' = "decrypt"
    /\ UNCHANGED <<cfg, hdr, slot, lop, ipc, proc, logfile, files, now, appended, held>>

\* decryptor.decrypt(slice, reached_to_end) on the next k bytes of the
\* ciphertext; the flag may be set on a slice that ends the ciphertext.
CipherDecrypt ==
    /\ lpc = "decrypt"
    /\ \E k \in 0 .. Len(queue), reached_to_end \in BOOLEAN :
          /\ reached_to_end => k = Len(queue)
          /\ g' = [g EXCEPT !.dec = DecryptorDecrypt(@, SubSeq(queue, 1, k), reached_to_end),
                            !.last = k, !.slices = Min(@ + 1, 3)]
          /\ queue' = SubSeq(queue, k + 1, Len(queue))
          /\ lpc' = IF reached_to_end THEN "done" ELSE "decrypt"
    /\ UNCHANGED <<cfg, hdr, slot, lop, ipc, proc, logfile, files, now, appended, held>>

CipherNext == CipherInput \/ CipherFlush \/ CipherDecrypt

CipherSpec == CipherInit /\ [][CipherNext]_vars

\* --------------------------------------------------------------- the parser

\* A record is told by its number r and the length n of its encoding; byte
\* j of the encoding is 100 r + 10 n + j, which is neither a padding byte
\* (1 .. block) nor the junk byte 0. Compression is left out, on this side
\* as on the logging side: the decryptor's output is the parser's input.
RecByte(r, j, n) == 100 * r + 10 * n + j

RecordBytes(r, n) == [j \in 1 .. n |-> RecByte(r, j, n)]

\* record.rs Record::decode on the bytes buffered: the record and its
\* length, UnexpectedEnd when the bytes end inside a record, an error when
\* they are not the bytes of a record.
RecordDecode(source) ==
    LET b == source[1]
        r == b \div 100
        n == (b % 100) \div 10
    IN  IF b < 100 \/ n = 0 \/ \E j \in 1 .. Min(n, Len(source)) : source[j] # RecByte(r, j, n)
        THEN [st |-> "Error", rec |-> 0, len |-> 0]
        ELSE IF Len(source) < n THEN [st |-> "UnexpectedEnd", rec |-> 0, len |-> 0]
        ELSE [st |-> "Ok", rec |-> r, len |-> n]

\* parse.rs RecordParser::parse_all / parse: buffer the bytes, call back
\* every whole record and drain it; on an error the bytes from the bad
\* record on stay in the buffer.
RECURSIVE ParserParse(_, _)
ParserParse(p, bytes) ==
    LET buffer == p.buffer \o bytes
        d      == RecordDecode(buffer)
    IN  IF buffer = <<>> \/ d.st = "UnexpectedEnd" THEN [p EXCEPT !.buffer = buffer]
        ELSE IF d.st = "Error" THEN [p EXCEPT !.buffer = buffer, !.ok = FALSE]
        ELSE ParserParse([p EXCEPT !.buffer = SubSeq(buffer, d.len + 1, Len(buffer)),
                                   !.out = Append(@, d.rec)], <<>>)

FinalFlagAlways(reached_to_end, writeback) == reached_to_end

\* parse.rs Processor::chunk_sink: reached_to_end && !writeback.
FinalFlag(reached_to_end, writeback) == reached_to_end /\ ~writeback

\* parse.rs Processor::chunk_sink, the sink closure on one slice of the
\* payload: decrypt into the parser (which is called only with bytes), then
\* clear the parser's buffer at the end of the payload; an error returns
\* before the clear.
ChunkSink(cur, parser, bytes) ==
    LET read_len       == cur.read_len + Len(bytes)
        reached_to_end == read_len = cur.len
        dec    == DecryptorDecrypt([cur.dec EXCEPT !.sink = <<>>], bytes,
                                   FinalFlag(reached_to_end, cur.writeback))
        parsed == IF dec.sink = <<>> THEN [parser EXCEPT !.ok = TRUE]
                  ELSE ParserParse([parser EXCEPT !.ok = TRUE], dec.sink)
        err    == IF ~parsed.ok THEN "Decode" ELSE IF ~dec.ok THEN "Decrypt" ELSE "None"
    IN  [cur    |-> [cur EXCEPT !.read_len = read_len, !.dec = dec],
         parser |-> IF err = "None" /\ reached_to_end
                    THEN [parsed EXCEPT !.buffer = <<>>] ELSE parsed,
         err    |-> err]

\* The chunks of the files parsed: whole ("plain"), written back without its
\* last block ("writeback"), of another format version ("version"), with a
\* first block that is not the cipher's ("junk"), with a last block that is
\* not the cipher's ("badpad"), cut short by the end of the file ("short",
\* last chunk only), and with a header without the magic ("nomagic").
ChunkKinds == {"plain", "writeback", "version", "junk", "badpad", "short", "nomagic"}

Layouts ==
    UNION {[1 .. n -> [kind : ChunkKinds,
                       sizes : UNION {[1 .. m -> {1, 2}] : m \in 1 .. MaxRecs}]]
           : n \in 1 .. MaxChunks}

JunkByte == [blk |-> <<>>, i |-> 0]

\* The plaintext of chunk c of a layout: its records, numbered through the file.
RECURSIVE Plaintext(_, _, _)
Plaintext(c, sizes, k) ==
    IF k > Len(sizes) THEN <<>>
    ELSE RecordBytes(MaxRecs * (c - 1) + k, sizes[k]) \o Plaintext(c, sizes, k + 1)

\* The payload the logger leaves for the chunk: Input then Flush, or Input
\* alone for a chunk written back.
Payload(c, chunk) ==
    LET input == EncryptorInput(NewStream, Plaintext(c, chunk.sizes, 1))
        whole == EncryptorFlush(input).sink
        n     == Len(whole)
    IN  CASE chunk.kind = "writeback" -> input.sink
          [] chunk.kind = "junk" ->
               [i \in 1 .. n |-> IF i <= cfg.block THEN JunkByte ELSE whole[i]]
          [] chunk.kind = "badpad" ->
               [i \in 1 .. n |-> IF i > n - cfg.block THEN JunkByte ELSE whole[i]]
          [] OTHER -> whole

\* The file: for every chunk one header cell, then its payload bytes.
RECURSIVE FileOf(_, _)
FileOf(layout, c) ==
    IF c > Len(layout) THEN <<>>
    ELSE LET payload == Payload(c, layout[c])
             cut     == IF layout[c].kind = "short" THEN Len(payload) - 1 ELSE Len(payload)
         IN  <<[k |-> "h", magic |-> layout[c].kind # "nomagic",
                version |-> layout[c].kind # "version",
                writeback |-> layout[c].kind = "writeback",
                len |-> Len(payload), chunk |-> c]>>
             \o [i \in 1 .. cut |-> [k |-> "b", v |-> payload[i]]]
             \o FileOf(layout, c + 1)

NoChunk == [len |-> 0, writeback |-> FALSE, remaining |-> 0, read_len |-> 0,
            dec |-> NewStream, chunk |-> 0]

ParseInit ==
    /\ cfg = CipherConfig
    /\ hdr = HeaderDefault
    /\ slot = [s \in Slots |-> ZeroChunk]
    /\ lpc = "header"
    /\ lop = NoOp
    /\ ipc = "none"
    /\ proc = NewProcessor
    /\ logfile = NoFile
    /\ files = <<>>
    /\ now = 1
    /\ appended = <<>>
    /\ held = [logger |-> NoHandle, io |-> NoHandle]
    /\ \E layout \in Layouts :
          /\ \A c \in 1 .. Len(layout) - 1 : layout[c].kind # "short"
          /\ queue = FileOf(layout, 1)
          /\ g = [layout |-> layout, cur |-> NoChunk,
                  parser |-> [buffer |-> <<>>, out |-> <<>>, ok |-> TRUE],
                  errors |-> <<>>, result |-> "none", started |-> <<>>, at |-> <<>>]

\* parse.rs parse, one turn of the loop up to the payload: the reader's
\* read_header_or_reach_to_end (now is the reader's position in the file),
\* the version test, and the chunk sink made for the payload. started and
\* at record the parser's buffer and the position at each header read.
ParseHeader ==
    /\ lpc = "header"
    /\ \E io \in BOOLEAN :
          LET cell == queue[now]
              seen == [g EXCEPT !.at = Append(@, now)]
          IN  IF io THEN /\ g' = [g EXCEPT !.result = "Io"]
                         /\ lpc' = "done"
                         /\ now' = now
              ELSE IF now > Len(queue)
              THEN /\ g' = [g EXCEPT !.result = IF g.errors = <<>> THEN "Ok" ELSE "Chunks"]
                   /\ lpc' = "done"
                   /\ now' = now
              ELSE IF cell.k # "h" \/ ~cell.magic
              THEN /\ g' = [seen EXCEPT !.result = "FileInvalid"]
                   /\ lpc' = "done"
                   /\ now' = now + 1
              ELSE IF ~cell.version
              THEN /\ g' = seen
                   /\ lpc' = "header"
                   /\ now' = now + 1
              ELSE /\ g' = [seen EXCEPT
                              !.cur = [NoChunk EXCEPT !.len = cell.len,
                                          !.writeback = cell.writeback,
                                          !.remaining = cell.len, !.chunk = cell.chunk],
                              !.started = Append(@, g.parser.buffer)]
                   /\ lpc' = IF cell.len = 0 THEN "header" ELSE "payload"
                   /\ now' = now + 1
    /\ UNCHANGED <<cfg, hdr, slot, lop, ipc, queue, proc, logfile, files, appended, held>>

\* chunk.rs Reader::read_payload, one turn of its loop: a read of 1 up to
\* ReaderLen bytes handed to the chunk sink; on the sink's error the reader
\* seeks over the rest of the payload and parse collects the error.
ParseRead ==
    /\ lpc = "payload"
    /\ \E io \in BOOLEAN, n \in 1 .. ReaderLen :
          IF io THEN /\ g' = [g EXCEPT !.result = "Io"]
                     /\ lpc' = "done"
                     /\ now' = now
          ELSE IF now > Len(queue)
          THEN /\ n = 1
               /\ g' = [g EXCEPT !.result = "FileIncomplete"]
               /\ lpc' = "done"
               /\ now' = now
          ELSE /\ n <= Min(g.cur.remaining, Len(queue) - now + 1)
               /\ LET remaining == g.cur.remaining - n
                      sunk == ChunkSink(g.cur, g.parser,
                                        [i \in 1 .. n |-> queue[now + i - 1].v])
                  IN  /\ g' = [g EXCEPT
                                 !.cur = [sunk.cur EXCEPT !.remaining = remaining],
                                 !.parser = sunk.parser,
                                 !.errors = IF sunk.err = "None" THEN @
                                            ELSE Append(@, <<sunk.err, g.cur.chunk>>)]
                      /\ now' = IF sunk.err = "None" THEN now + n ELSE now + n + remaining
                      /\ lpc' = IF sunk.err = "None" /\ remaining > 0
                                THEN "payload" ELSE "header"
    /\ UNCHANGED <<cfg, hdr, slot, lop, ipc, queue, proc, logfile, files, appended, held>>

ParseNext == ParseHeader \/ ParseRead

ParseSpec == ParseInit /\ [][ParseNext]_vars

\* ----------------------------------------------------------- the codec

\* An integer value of the codec is kept as its base-128 digits, lowest
\* first, without trailing zero digits (<<>> is 0): u32 and u64 values do
\* not fit the integers of the checker.
RECURSIVE Normalize(_)
Normalize(digits) ==
    IF digits # <<>> /\ digits[Len(digits)] = 0
    THEN Normalize(SubSeq(digits, 1, Len(digits) - 1)) ELSE digits

\* Number of significant bits of a 7-bit group: width - leading_zeros().
BitLen(d) == CHOOSE k \in 0 .. 7 : d < 2 ^ k /\ (k = 0 \/ d >= 2 ^ (k - 1))

\* The value fits an unsigned integer of the width.
Fits(width, digits) ==
    LET n == Normalize(digits)
    IN  n = <<>> \/ 7 * (Len(n) - 1) + BitLen(n[Len(n)]) <= width

\* codec.rs integral_type_codec_impl!(encode): 7 bits a byte, lowest first,
\* 0x80 set on every byte but the last.
RECURSIVE VarintEncode(_)
VarintEncode(digits) ==
    IF Len(digits) <= 1 THEN (IF digits = <<>> THEN <<0>> ELSE digits)
    ELSE <<Head(digits) + 128>> \o VarintEncode(Tail(digits))

VarintGuardNone(width, high_bits, shift) == FALSE

\* codec.rs integral_type_codec_impl!(decode), the overflow check:
\* high_bits.leading_zeros() < shift.
VarintGuard(width, high_bits, shift) == width - BitLen(high_bits) < shift

ShiftLeftNone(width, high_bits, shift) == 0

\* high_bits << shift on an integer of the width, as the digit at shift / 7:
\* bits shifted beyond the width are lost.
ShiftLeft(width, high_bits, shift) ==
    IF shift >= width THEN 0
    ELSE IF width - shift >= 7 THEN high_bits
    ELSE high_bits % (2 ^ (width - shift))

\* codec.rs integral_type_codec_impl!(decode): the loop, from (val, shift).
\* far = a shift by the width or more was executed.
RECURSIVE VarintDecode(_, _, _, _, _)
VarintDecode(width, source, val, shift, far) ==
    IF source = <<>>
    THEN [ok |-> FALSE, err |-> "UnexpectedEnd", val |-> <<>>, rest |-> <<>>, far |-> far]
    ELSE LET byte      == Head(source)
             high_bits == byte % 128
             next      == Append(val, ShiftLeft(width, high_bits, shift))
         IN  IF VarintGuard(width, high_bits, shift)
             THEN [ok |-> FALSE, err |-> "IntegerOverflow", val |-> <<>>,
                   rest |-> <<>>, far |-> far]
             ELSE IF byte < 128
             THEN [ok |-> TRUE, err |-> "None", val |-> Normalize(next),
                   rest |-> Tail(source), far |-> far \/ shift >= width]
             ELSE VarintDecode(width, Tail(source), next, shift + 7,
                               far \/ shift >= width)

\* The codec types of the model: the integers, a byte string, an optional
\* u32, and a struct of a u32 and a byte string.
CodecTypes == {"u32", "u64", "bytes", "option", "struct"}

\* codec.rs Decode for u32/u64, &[u8] (length, then read_bytes), Option<T>
\* (tag, then the payload) and for a struct (field after field).
RECURSIVE Decode(_, _)
Decode(type, source) ==
    LET fail(e) == [ok |-> FALSE, err |-> e, val |-> <<>>, rest |-> <<>>, far |-> FALSE]
    IN  CASE type = "u32" -> VarintDecode(32, source, <<>>, 0, FALSE)
          [] type = "u64" -> VarintDecode(64, source, <<>>, 0, FALSE)
          [] type = "bytes" ->
               LET len == VarintDecode(64, source, <<>>, 0, FALSE)
                   n   == IF len.val = <<>> THEN 0 ELSE len.val[1]
               IN  IF ~len.ok THEN len
                   ELSE IF Len(len.val) > 1 \/ n > Len(len.rest) THEN fail("UnexpectedEnd")
                   ELSE [len EXCEPT !.val = SubSeq(len.rest, 1, n),
                                    !.rest = SubSeq(len.rest, n + 1, Len(len.rest))]
          [] type = "option" ->
               IF source = <<>> THEN fail("UnexpectedEnd")
               ELSE IF Head(source) = 0
               THEN [ok |-> TRUE, err |-> "None", val |-> <<"None">>,
                     rest |-> Tail(source), far |-> FALSE]
               ELSE IF Head(source) = 1
               THEN LET inner == Decode("u32", Tail(source))
                    IN  IF inner.ok THEN [inner EXCEPT !.val = <<"Some", inner.val>>]
                        ELSE inner
               ELSE fail("UnexpectedVariant")
          [] OTHER ->
               LET first  == Decode("u32", source)
                   second == Decode("bytes", first.rest)
               IN  IF ~first.ok THEN first
                   ELSE IF ~second.ok THEN second
                   ELSE [second EXCEPT !.val = <<first.val, second.val>>,
                                       !.far = first.far \/ second.far]

\* codec.rs Encode for the same types.
RECURSIVE Encode(_, _)
Encode(type, val) ==
    CASE type \in {"u32", "u64"} -> VarintEncode(val)
      [] type = "bytes" -> VarintEncode(Normalize(<<Len(val)>>)) \o val
      [] type = "option" ->
           IF val[1] = "None" THEN <<0>> ELSE <<1>> \o Encode("u32", val[2])
      [] OTHER -> Encode("u32", val[1]) \o Encode("bytes", val[2])

\* Byte strings of the codec runs: a run of one continuation byte, then up to
\* MaxTail bytes of the alphabet.
ByteAlphabet == {0, 1, 2, 15, 16, 127, 128, 255}

Tails == UNION {[1 .. n -> ByteAlphabet] : n \in 0 .. MaxTail}

Sources ==
    {[i \in 1 .. n |-> fill] \o tail : n \in 0 .. MaxFill, fill \in {128, 255}, tail \in Tails}

CodecInit ==
    /\ cfg = Config
    /\ hdr = HeaderDefault
    /\ slot = [s \in Slots |-> ZeroChunk]
    /\ lpc = "source"
    /\ lop = NoOp
    /\ ipc = "none"
    /\ queue \in Sources
    /\ proc = NewProcessor
    /\ logfile = NoFile
    /\ files = <<>>
    /\ now = 0
    /\ appended = <<>>
    /\ held = [logger |-> NoHandle, io |-> NoHandle]
    /\ g = [type |-> "none", decoded |-> Decode("option", <<>>), encoded |-> <<>>]

\* T::decode(&mut source) on the byte string.
CodecDecode ==
    /\ lpc = "source"
    /\ \E type \in CodecTypes :
          g' = [g EXCEPT !.type = type, !.decoded = Decode(type, queue)]
    /\ lpc' = "decoded"
    /\ UNCHANGED <<cfg, hdr, slot, lop, ipc, queue, proc, logfile, files, now, appended, held>>

\* value.encode(&mut sink) on the decoded value.
CodecEncode ==
    /\ lpc = "decoded"
    /\ g.decoded.ok
    /\ g' = [g EXCEPT !.encoded = Encode(g.type, g.decoded.val)]
    /\ lpc' = "encoded"
    /\ UNCHANGED <<cfg, hdr, slot, lop, ipc, queue, proc, logfile, files, now, appended, held>>

CodecNext == CodecDecode \/ CodecEncode

CodecSpec == CodecInit /\ [][CodecNext]_vars

\* ------------------------------------------------- properties, crash-free

\* The record ids of a sequence of appended chunks, in file order.
RECURSIVE RecsOf(_)
RecsOf(chunks) ==
    IF chunks = <<>> THEN <<>>
    ELSE RecsOf(SubSeq(chunks, 1, Len(chunks) - 1)) \o chunks[Len(chunks)].recs

Increasing(seq) == \A i, j \in 1 .. Len(seq) : i < j => seq[i] < seq[j]

\* C1: in a crash-free run, once shutdown() has returned, every record passed
\* to log() is in a chunk that was appended to a log file, in log() order.
\* Stated for the runs in which no file write failed and no record overflowed
\* its chunk, so that nothing but the hand-over between the threads is left to
\* lose a record.
C1_NoRecordLost ==
    (lpc = "done" /\ ~g.overflow /\ ~g.ioerr)
        => RecsOf(appended) = [i \in 1 .. g.nrec |-> i]

\* C2: chunks are appended to the log files in the order in which they were
\* sealed, so the records of the files are in log() order.
C2_AppendedInSealOrder ==
    /\ Increasing([i \in 1 .. Len(appended) |-> appended[i].seal])
    /\ Increasing(RecsOf(appended))

C2_Witness ==
    \E i, j \in 1 .. Len(appended) :
        i < j /\ appended[i].recs # <<>> /\ appended[j].recs # <<>>

\* C4: a handle stays bound to the slot it resolved to, the logger thread's
\* handles are bound to the input side and the worker's to the output side, so
\* the two threads never hold handles on the same slot and no thread writes a
\* slot the other one holds.
C4_HandlesOnDistinctSlots ==
    lpc # "new" =>
        /\ held.logger # NoHandle => held.logger = InputSlot
        /\ held.io # NoHandle => held.io = OutputSlot
        /\ (held.logger # NoHandle /\ held.io # NoHandle) => held.logger # held.io

C4_Witness ==
    /\ lpc = "input" /\ lop.kind = "Input"
    /\ ipc = "write" /\ slot[held.io].length > 0
    /\ held.logger # NoHandle
    /\ g.nseal >= 2

\* C6: the worker handles the events in send order and stops at Shutdown, the
\* last event sent: when it has stopped, every event enqueued before, the
\* WriteChunk of the final Rotate included, has been handled.
C6_StoppedAfterAllEvents ==
    ipc = "stopped" => (queue = <<>> /\ g.handled = g.enq)

C6_Witness ==
    ipc = "stopped" /\ g.handled >= 4 /\ Len(appended) >= 2

\* C7: under fair scheduling a shutdown() that has sent Shutdown returns: the
\* worker reaches the event, stops, and join() ends, whatever write errors the
\* events before it met.
C7_ShutdownReturns == (lpc = "join") ~> (lpc = "done")

C7_Witness == lpc = "done" /\ g.ioerr /\ g.handled >= 3

\* ------------------------------------------------ properties, double buffer

\* C3: once the buffer is constructed, alpha_side is Left or Right, and the
\* Left and the Right handle resolve to different physical slots.
C3_SidesOnDistinctSlots ==
    lpc # "new" =>
        /\ hdr.magic /\ hdr.alpha_side \in Sides
        /\ {BufferOf(hdr, "Left"), BufferOf(hdr, "Right")} = Slots

C3_Witness ==
    /\ lpc = "ready" /\ g.nsw >= 1 /\ hdr.alpha_side = "Right"
    /\ BufferOf(hdr, "Left") = "Beta" /\ BufferOf(hdr, "Right") = "Alpha"

IsPrefix(p, seq) == Len(p) <= Len(seq) /\ SubSeq(seq, 1, Len(p)) = p

\* C5: a switch makes each named handle address the slot the other one
\* addressed: the bytes written through one handle before the switch are read
\* back unchanged through the other handle after it (bytes written since the
\* switch follow them).
C5_SwitchExchangesSides ==
    (lpc = "ready" /\ g.nsw >= 1) =>
        /\ IsPrefix(g.last[1], HandleBytes(hdr, slot, "Right"))
        /\ IsPrefix(g.last[2], HandleBytes(hdr, slot, "Left"))

C5_Witness ==
    /\ lpc = "ready" /\ g.nsw >= 2
    /\ g.last[1] # <<>> /\ g.last[2] # <<>> /\ g.last[1] # g.last[2]
    /\ HandleBytes(hdr, slot, "Right") = g.last[1]

\* ---------------------------------------------------- properties, recovery

\* The stored bytes of a chunk: header fields and payload.
SameChunk(a, c) ==
    /\ a.length = c.length /\ a.writeback = c.writeback
    /\ a.start = c.start /\ a.end = c.end /\ a.recs = c.recs

\* C8: when a logger starts on a buffer whose output side holds a sealed
\* chunk and whose input side holds a partially filled one, then, once the
\* WriteChunk of the startup Writeback has been handled, the output-side chunk
\* has been appended as it was found, and the input-side chunk right after it,
\* with writeback = 1.
C8_RecoveryAppendsBoth ==
    (/\ lpc # "new"
     /\ g.found.output.length > 0 /\ g.found.output.by = "Rotate"
     /\ g.found.input.length > 0 /\ g.found.input.by = "None"
     /\ g.found.input.recs # <<>>
     /\ g.handled >= 1)
        => /\ Len(appended) >= g.mark + 2
           /\ SameChunk(appended[g.mark + 1], g.found.output)
           /\ SameChunk(appended[g.mark + 2], SetWriteback(g.found.input))

\* C9: a chunk reaches a log file with writeback = 1 only if the startup
\* Writeback found it non-empty in the input side; a chunk sealed by a Rotate
\* is written with writeback = 0.
C9_WritebackOnlyRecovered ==
    \A i \in 1 .. Len(appended) :
        appended[i].writeback => appended[i].by = "Writeback"

\* ---------------------------------------------------- properties, pipeline

\* C10: a chunk that a Rotate sealed and the worker wrote holds a complete
\* cipher stream: it ends with the padded final block, and no byte of its
\* records stayed behind in the processor's buffers.
C10_SealedChunkComplete ==
    \A i \in 1 .. Len(appended) :
        ~appended[i].writeback => (appended[i].pad /\ appended[i].carry = 0)

\* ------------------------------------------------------ properties, chunk

\* C11: once a chunk is bound and validated or initialized, no sequence of
\* initialize, write, set_end_datetime, set_writeback and clear makes the
\* payload length exceed the capacity (the slice length minus the 60 bytes of
\* the header).
C11_LengthWithinCapacity ==
    lpc = "ready" => \A s \in Slots : slot[s].length <= Capacity

C11_Witness ==
    /\ lpc = "ready" /\ g.refused
    /\ slot["Alpha"].length = Capacity /\ slot["Alpha"].writeback

\* C32: a write of n bytes to a chunk of length l with l + n > capacity
\* changes neither the length nor the payload and returns Overflow; any
\* other write copies the bytes at offset l and makes the length l + n.
C32_WriteAppendsOrOverflows ==
    [][(lpc = "ready" /\ g'.wrote # 0) =>
          LET c == slot["Alpha"]
              n == g'.wrote
          IN  IF c.length + n > Capacity
              THEN slot' = slot /\ g'.refused
              ELSE /\ slot' = [slot EXCEPT !["Alpha"] =
                                  [c EXCEPT !.length = c.length + n,
                                            !.dts = Append(c.dts, [off |-> c.length, len |-> n])]]
                   /\ g'.refused = g.refused]_vars

\* A write was refused on a chunk that holds two accepted slices, the second
\* one copied behind the first.
C32_Witness ==
    /\ lpc = "ready" /\ g.refused /\ g.wrote # 0
    /\ Len(slot["Alpha"].dts) = 2
    /\ slot["Alpha"].dts[2].off = slot["Alpha"].dts[1].len
    /\ slot["Alpha"].length + g.wrote > Capacity

\* C33: constructing the double buffer over a region whose header has the
\* valid magic and Left or Right as its side leaves the header and the bytes
\* of both sides unchanged; with a wrong magic or side only the header
\* changes, to the magic with Alpha = Left.
C33_ConstructionKeepsValidRegion ==
    [][(lpc = "new" /\ lpc' = "ready") =>
          /\ slot' = slot
          /\ hdr' = IF hdr.magic /\ hdr.alpha_side \in {"Left", "Right"}
                    THEN hdr
                    ELSE [magic |-> TRUE, alpha_side |-> "Left"]]_vars

\* The buffer was constructed over a region with the valid magic, a side
\* byte that names no side and bytes in both sides.
C33_Witness ==
    /\ lpc = "ready" /\ g.nsw = 0
    /\ g.found = <<[magic |-> TRUE, alpha_side |-> "Zero"]>>
    /\ hdr = [magic |-> TRUE, alpha_side |-> "Left"]
    /\ \A s \in Slots : slot[s] = <<MaxByte>>

\* ------------------------------------------------------- properties, time

\* C12: when the record datetimes of the log() calls are non-decreasing, every
\* chunk written to a file has start <= end, and of two successive chunks of
\* one file the earlier ends no later than the later starts.
C12_TimeRangesOrdered ==
    g.mono =>
        /\ \A i \in 1 .. Len(appended) : appended[i].start <= appended[i].end
        /\ \A f \in DOMAIN files : \A i \in 1 .. Len(files[f]) - 1 :
              files[f][i].end <= files[f][i + 1].start

\* C13: the datetime of every record stored in a written chunk lies within the
\* chunk's inclusive time range [start, end].
C13_RecordsWithinTimeRange ==
    \A i \in 1 .. Len(appended) : \A k \in 1 .. Len(appended[i].dts) :
        /\ appended[i].start <= appended[i].dts[k]
        /\ appended[i].dts[k] <= appended[i].end

\* C14: the start datetime of every chunk appended to a log file matches the
\* datetime of the file's name at the file rotation dimension (Hour for Minute
\* rotation, Day for Hour and for Day rotation).
C14_ChunkInFileBucket ==
    /\ \A i \in 1 .. Len(appended) :
          CheckMatch(FileDimension(cfg), appended[i].start, appended[i].file)
    /\ \A f \in DOMAIN files : \A i \in 1 .. Len(files[f]) :
          CheckMatch(FileDimension(cfg), files[f][i].start, f)

C14_Witness ==
    /\ cfg.rotation = "Minute"
    /\ \E i, j \in 1 .. Len(appended) :
          /\ i < j /\ appended[i].file # appended[j].file
          /\ appended[i].recs # <<>> /\ appended[j].recs # <<>>
    /\ \E f \in DOMAIN files : Len(files[f]) >= 1

\* ----------------------------------------------------- properties, errors

C16_WorkerSurvivesIoError ==
    /\ g.ioerr ~> (g.handled = g.enq)
    /\ [](g.ioerr => g.ntrack > 0 /\ ipc # "panicked")

C16_Witness == g.ioerr /\ ipc = "stopped" /\ lpc = "done" /\ appended # <<>>

\* ------------------------------------------------ properties, files

\* C18: handling Trim(lifetime) deletes exactly the log files of the domain
\* whose name-embedded timestamp is strictly less than now - lifetime; a file
\* at now - lifetime or newer survives, as do the entries with another
\* identifier or extension.
C18_TrimDeletesExpired ==
    ipc = "trimmed" =>
        DOMAIN files =
            g.before \ {o.name : o \in {x \in g.own : x.dt < g.expires}}

\* C35: directory enumeration recognises every file the worker created for
\* the domain under the name <identifier>-<seconds>.pine, whatever the
\* identifier, one that contains '-' included, and reads back its seconds.
C35_EnumerationRecognisesOwnFiles ==
    \A o \in g.own :
        LET entry == FromEntry(o.name, cfg.identifier)
        IN  entry.ok /\ entry.dt = o.dt

\* C19: for log files written by the logger from records with non-decreasing
\* datetimes, extract(domain, [a, b]) copies exactly the chunks whose time
\* range intersects [a, b], a chunk that starts at b as the first of its file
\* included.
C19_ExtractCopiesIntersecting ==
    g.mono => \A a, b \in 0 .. TimeMax :
        a <= b => Range(Extract(cfg, files, a, b).chunks) = Intersecting(files, a, b)

\* C20: extract returns NotFound exactly when it copied no chunk to the
\* destination (no candidate file or no chunk overlapping the range), and then
\* the destination file has not been created.  Stated for extractions whose
\* reads succeed.
C20_NotFoundIffNothingCopied ==
    \A a, b \in 0 .. TimeMax :
        a <= b =>
            LET e == Extract(cfg, files, a, b)
            IN  /\ e.result = "NotFound" <=> e.chunks = <<>>
                /\ e.chunks = <<>> => ~e.created

C20_Witness ==
    /\ \E f \in DOMAIN files : Len(files[f]) > 0
    /\ \E a, b \in 0 .. TimeMax :
          a <= b /\ Extract(cfg, files, a, b).result = "NotFound"
    /\ \E a, b \in 0 .. TimeMax :
          /\ a <= b /\ Extract(cfg, files, a, b).result = "Ok"
          /\ Len(Extract(cfg, files, a, b).chunks) >= 2

\* ------------------------------------------------- properties, Core::on

\* C28: whenever the logger initializes the input-side chunk right after a
\* switch, that side's payload length is already 0: the worker has drained
\* the chunk sealed there before, so initialize discards no sealed chunk.
C28_InitializeOnDrainedSide ==
    lpc = "init" => slot[InputSlot].length = 0

C30_InputRotatesWhenDue ==
    /\ [][lpc = "bound" /\ lop.kind = "Input" /\ lpc' \notin {"bound", "new"} =>
            LET c == slot[InputSlot]
            IN  IF \/ 5 * c.length >= 4 * Capacity
                   \/ ~CheckMatch(cfg.rotation, c.start, lop.rec.dt)
                THEN lpc' \in {"switch", "init"}
                ELSE lpc' = "input" /\ slot' = slot /\ queue' = queue]_vars
    /\ [][lpc = "input" /\ lop.kind = "Input" /\ lpc' \notin {"input", "new"} =>
            /\ hdr' = hdr /\ Len(queue') <= Len(queue)
            /\ slot'[OutputSlot] = slot[OutputSlot]
            /\ \/ slot'[InputSlot].recs = Append(slot[InputSlot].recs, lop.rec.id)
               \/ g'.ntrack > g.ntrack]_vars

C30_Witness ==
    /\ lpc = "switch" /\ lop.kind = "Input"
    /\ CheckMatch(cfg.rotation, slot[InputSlot].start, lop.rec.dt)
    /\ slot[InputSlot].recs # <<>>
    /\ \E i \in 1 .. Len(appended) : appended[i].by = "Rotate"

\* ------------------------------------------------- properties, cipher

\* C24: however the plaintext is split across Input calls, the output after
\* Flush is the output of one Input of the whole plaintext followed by
\* Flush, no call fails, and every Input call emits whole blocks only.
C24_SplitInvariant ==
    LET whole == EncryptorFlush(EncryptorInput(NewStream, g.plain))
    IN  /\ lpc = "encrypt" => g.enc.ok /\ g.whole
        /\ lpc = "decrypt" =>
              /\ g.enc.ok /\ g.whole /\ whole.ok
              /\ g.cipher = whole.sink
              /\ g.enc.buffer = <<>>

\* A plaintext longer than the encryptor's buffer, not a whole number of
\* blocks, was encrypted in three or more Input calls.
C24_Witness ==
    /\ lpc = "decrypt"
    /\ g.inputs >= 3
    /\ Len(g.plain) > cfg.encryptor
    /\ Len(g.plain) % cfg.block # 0

\* C25 as stated: decrypting the encryptor's output yields the plaintext for
\* every slicing of the ciphertext with the flag on the last slice only.
C25_DecryptRoundTrip ==
    lpc = "done" => g.dec.ok /\ g.dec.sink = g.plain

\* C25, amended: the same, provided the last slice, the one that carries
\* the flag, is not empty.
C25_DecryptRoundTripNonEmptyLast ==
    (lpc = "done" /\ g.last > 0) => g.dec.ok /\ g.dec.sink = g.plain

\* A plaintext of whole blocks, longer than the decryptor's buffer, was
\* decrypted in three or more slices, the last one not empty.
C25_Witness ==
    /\ lpc = "done"
    /\ g.last > 0
    /\ g.slices >= 3
    /\ Len(g.plain) > cfg.decryptor
    /\ Len(g.plain) % cfg.block = 0

\* ------------------------------------------------- properties, parser

RECURSIVE EndOffset(_, _)
EndOffset(sizes, k) == IF k = 0 THEN 0 ELSE sizes[k] + EndOffset(sizes, k - 1)

\* The plaintext bytes of chunk c that its payload holds: all of them, or,
\* for a chunk written back, those of the whole blocks.
PresentLen(c) ==
    LET total == EndOffset(g.layout[c].sizes, Len(g.layout[c].sizes))
    IN  IF g.layout[c].kind = "writeback" THEN (total \div cfg.block) * cfg.block ELSE total

\* The records of chunk c that lie entirely in the bytes present, in order.
ExpectedOf(c) ==
    SelectSeq([k \in 1 .. Len(g.layout[c].sizes) |-> MaxRecs * (c - 1) + k],
              LAMBDA r : EndOffset(g.layout[c].sizes, r - MaxRecs * (c - 1)) <= PresentLen(c))

\* The records of chunk c handed to the callback so far, in order.
DeliveredOf(c) == SelectSeq(g.parser.out, LAMBDA r : (r - 1) \div MaxRecs = c - 1)

KindsIn(kinds) == \A c \in 1 .. Len(g.layout) : g.layout[c].kind \in kinds

ErrorsOf(c) == SelectSeq(g.errors, LAMBDA e : e[2] = c)

\* The payload of chunk c has been handed to the chunk sink to its end.
Passed(c) ==
    \/ g.cur.chunk > c
    \/ g.cur.chunk = c /\ g.cur.read_len = g.cur.len

\* C21 as stated: with chunks that fail with a Decrypt or a Decode error
\* among whole chunks, every header is read at a chunk header, parse ends
\* with the batch of one error per failing chunk, and every record of the
\* whole chunks is delivered; a header without the magic or a payload cut
\* short ends parse at once with FileInvalid or FileIncomplete.
C21_ChunkErrorsConfined ==
    /\ KindsIn(ChunkKinds \ {"version"}) =>
          \A i \in 1 .. Len(g.at) : g.at[i] <= Len(queue) => queue[g.at[i]].k = "h"
    /\ (lpc = "done" /\ g.result # "Io" /\ KindsIn({"plain", "junk", "badpad"})) =>
          /\ g.result = IF KindsIn({"plain"}) THEN "Ok" ELSE "Chunks"
          /\ \A c \in 1 .. Len(g.layout) :
                IF g.layout[c].kind = "plain"
                THEN ErrorsOf(c) = <<>> /\ DeliveredOf(c) = ExpectedOf(c)
                ELSE Len(ErrorsOf(c)) = 1
    /\ (lpc = "done" /\ g.result # "Io" /\ KindsIn({"plain", "nomagic", "short"})
             /\ ~KindsIn({"plain"})) =>
          /\ g.result = IF KindsIn({"plain", "short"}) THEN "FileIncomplete" ELSE "FileInvalid"
          /\ \A c \in 1 .. Len(g.layout) :
                g.layout[c].kind = "nomagic" =>
                    \A d \in c .. Len(g.layout) : DeliveredOf(d) = <<>>

\* C22 as stated: in a file of whole chunks and chunks of another format
\* version, parse ends without an error and has delivered every record of
\* the whole chunks, those after a chunk of another version included.
C22_VersionSkipped ==
    (lpc = "done" /\ g.result # "Io" /\ KindsIn({"plain", "version"})) =>
        /\ g.result = "Ok"
        /\ \A c \in 1 .. Len(g.layout) :
              g.layout[c].kind = "plain" => DeliveredOf(c) = ExpectedOf(c)

C34_ParserBufferEmptyAtChunkStart ==
    \A i \in 1 .. Len(g.started) : g.started[i] = <<>>

\* ------------------------------------------------- properties, Io

\* C31: the step that handles WriteChunk changes nothing of the chunks, the
\* open file, the directory and the files' contents when the bound
\* output-side chunk is empty; otherwise it sets that chunk's length to 0
\* and keeps its other header fields, leaves the other side alone, and
\* either the write failed and no file's content changed, or header plus
\* payload[0..length] was appended once, to the file the worker holds.
C31_WriteChunkEffect ==
    [][(ipc = "write" /\ ipc' # "write") =>
          LET out   == held.io
              chunk == slot[out]
          IN  IF chunk.length = 0
              THEN /\ slot' = slot /\ logfile' = logfile
                   /\ files' = files /\ appended' = appended
              ELSE /\ slot' = [slot EXCEPT ![out] =
                                  [chunk EXCEPT !.length = 0, !.recs = <<>>, !.dts = <<>>]]
                   /\ slot'[out].writeback = chunk.writeback
                   /\ slot'[out].start = chunk.start
                   /\ slot'[out].end = chunk.end
                   /\ \/ appended' = appended /\ files' = files
                      \/ /\ Len(appended') = Len(appended) + 1
                         /\ SubSeq(appended', 1, Len(appended)) = appended
                         /\ LET snap == appended'[Len(appended')]
                            IN  /\ snap.length = chunk.length
                                /\ snap.recs = chunk.recs
                                /\ snap.start = chunk.start
                                /\ snap.file = logfile'.dt
                                /\ \A f \in DOMAIN files :
                                      /\ f \in DOMAIN files'
                                      /\ f # snap.file => files'[f] = files[f]
                                /\ DOMAIN files' \subseteq DOMAIN files \cup {snap.file}
                                /\ snap.linked =>
                                      files'[snap.file] =
                                          Append(IF snap.file \in DOMAIN files
                                                 THEN files[snap.file] ELSE <<>>, snap)]_vars

\* A non-empty chunk is about to be written after an earlier write failed
\* and another succeeded.
C31_Witness ==
    /\ ipc = "write"
    /\ slot[held.io].length > 0
    /\ g.ioerr
    /\ appended # <<>>

\* C37: in a crash-free run no sealed chunk is appended to a log file more
\* than once: what is appended has a payload, each seal is appended at most
\* once, and a side whose sealed chunk was appended has length 0 from then
\* on, so also when it becomes the input side again.
C37_SealedChunkAppendedOnce ==
    /\ \A i \in 1 .. Len(appended) : appended[i].length > 0 /\ appended[i].seal > 0
    /\ \A i, j \in 1 .. Len(appended) : appended[i].seal = appended[j].seal => i = j
    /\ \A s \in Slots, i \in 1 .. Len(appended) :
          slot[s].seal = appended[i].seal => slot[s].length = 0

\* Three chunks were sealed and two of them appended, so a side was written,
\* became the input side again and was sealed again; the side written last
\* still shows its seal.
C37_Witness ==
    /\ g.nseal >= 3 /\ Len(appended) >= 2
    /\ \E s \in Slots : slot[s].seal = appended[Len(appended)].seal /\ slot[s].length = 0
    /\ \E s \in Slots : slot[s].length > 0

\* C36: one logger with Minute rotation, fed records with non-decreasing
\* datetimes, with or without flush() calls, and then shut down, leaves at
\* most one log file per hour bucket: no two log files of the directory have
\* datetimes of the same day and hour.
C36_OneFilePerHourBucket ==
    (lpc = "done" /\ g.mono /\ cfg.rotation = "Minute") =>
        \A e, f \in DOMAIN files : CheckMatch("Hour", e, f) => e = f

\* C39: after every Input operation all records held in the input-side chunk
\* match the chunk's start datetime at the chunk rotation dimension, also
\* when the chunk's header was stamped by a previous run.  Stated for every
\* state in which the logger is between two operations.
C39_RecordsMatchChunkStart ==
    lop = NoOp =>
        LET chunk == slot[InputSlot]
        IN  \A i \in 1 .. Len(chunk.dts) :
                CheckMatch(ChunkDimension(cfg), chunk.start, chunk.dts[i])

\* After a crash the new logger found an empty input-side chunk with a valid
\* header, stamped at an earlier second, and an Input wrote a record into it
\* without rotating.
C39_Witness ==
    /\ g.ncrash >= 1 /\ lpc = "idle" /\ lop = NoOp
    /\ g.found.input.valid /\ g.found.input.length = 0
    /\ slot[InputSlot].recs # <<>>
    /\ slot[InputSlot].start = g.found.input.start
    /\ slot[InputSlot].start < now
    /\ g.nseal = 0

\* ------------------------------------------------- properties, encoder

\* C40: AccumulationEncoder::encode leaves its buffer empty when it returns,
\* on success and on a sink error alike, so the bytes the sink gets for a
\* record never start with bytes left from an earlier record: between two
\* operations of the logger the encoder's buffer is empty.
C40_EncoderBufferEmptyAfterEncode ==
    lop = NoOp => proc.enc = 0

\* ------------------------------------------------- properties, trimming

\* C38: handling a Trim event never removes the log file the IO worker holds
\* open for appending: the file the worker holds is an entry of the
\* directory, and every chunk a WriteChunk wrote went to a file that was an
\* entry of the directory when it was written.
C38_TrimKeepsOpenFile ==
    /\ logfile.open => logfile.linked
    /\ \A i \in 1 .. Len(appended) : appended[i].linked

\* ------------------------------------------------- properties, codec

\* The bytes of the source up to and with its first byte below 0x80 (<<>>
\* when there is none), and the 7-bit groups they carry.
RECURSIVE VarintPrefix(_)
VarintPrefix(source) ==
    IF source = <<>> THEN <<>>
    ELSE IF Head(source) < 128 THEN <<Head(source)>>
    ELSE LET more == VarintPrefix(Tail(source))
         IN  IF more = <<>> THEN <<>> ELSE <<Head(source)>> \o more

Groups(bytes) == [i \in 1 .. Len(bytes) |-> bytes[i] % 128]

TypeWidth == IF g.type = "u32" THEN 32 ELSE 64

ShortestVarint(source) ==
    LET pre == VarintPrefix(source)
    IN  pre # <<>> /\ (Len(pre) = 1 \/ pre[Len(pre)] # 0)

\* Every varint read while decoding the type is in its shortest form.
Shortest(type, source) ==
    CASE type \in {"u32", "u64", "bytes"} -> ShortestVarint(source)
      [] type = "option" -> Head(source) = 0 \/ ShortestVarint(Tail(source))
      [] OTHER -> /\ ShortestVarint(source)
                  /\ ShortestVarint(Decode("u32", source).rest)

\* C27 as stated: re-encoding a value that decoded successfully yields a
\* prefix of the byte string it was decoded from.
C27_ReencodeIsPrefix ==
    lpc = "encoded" => IsPrefix(g.encoded, queue)

\* C27, amended: when a value decodes successfully from a byte string in
\* which every varint read is in its shortest form, re-encoding the value
\* yields a prefix of the byte string: the bytes the decoder consumed.
C27_ReencodeShortestIsPrefix ==
    (lpc = "encoded" /\ Shortest(g.type, queue)) =>
        /\ IsPrefix(g.encoded, queue)
        /\ g.encoded \o g.decoded.rest = queue

\* A struct of a two-byte varint and a non-empty byte string is re-encoded.
C27_Witness ==
    /\ lpc = "encoded"
    /\ g.type = "struct"
    /\ Shortest(g.type, queue)
    /\ Len(VarintPrefix(queue)) >= 2
    /\ g.decoded.val[2] # <<>>

====
